---- MODULE Spec2Model ----
(***************************************************************************)
(* Signal-and-position engine of the Hispanyolo trading system.            *)
(*                                                                         *)
(* Prices are fixed-point numbers in tenths (1.0 is written 10), token     *)
(* quantities are whole tokens, sell portions are percentages and PnL is   *)
(* in tenths (15.0 is written 150).                                        *)
(*                                                                         *)
(* The position side is modelled as asyncio handlers: a handler runs       *)
(* atomically up to an await of the execution provider (execute_swap) and  *)
(* is resumed by one of the provider's outcomes.  SpecSeq runs one handler *)
(* at a time, SpecConc lets the handlers of Procs be suspended at once.    *)
(*                                                                         *)
(* The clock is in minutes.  The metrics engine (scores, signals, cleanup),*)
(* the wallet monitor (status of a wallet, monitoring tasks), the swap     *)
(* filter, the token categorizer and the data client's fetch each have     *)
(* their own specification over the same variables, and so have the        *)
(* metadata cache behind categorize_token (SpecMetadata), the tier loops'  *)
(* concurrent process_transaction calls (SpecScoring), the stopping of     *)
(* the monitoring loops (SpecShutdown), the recording of wallet activity   *)
(* (SpecActivity) and the signals of tokens without metadata (SpecEntry).  *)
(*                                                                         *)
(* The websocket relay of the dashboard (pirate_ui/server.ts) is modelled  *)
(* with its connections, its message handler and its ping interval         *)
(* (SpecRelay, SpecHeartbeat).                                             *)
(***************************************************************************)
EXTENDS Integers, FiniteSets, Sequences, TLC

VARIABLES positions, calls, sellCount, token_metrics, last_tx,
          signals, last_signal, last_cleanup, now,
          wallets, loops, last_polled,
          swap, categorizer, fetch,
          metadata_cache, last_lookup, scoring, scored, is_running,
          clients, currentState, sockets, sent

vars == <<positions, calls, sellCount, token_metrics, last_tx,
          signals, last_signal, last_cleanup, now,
          wallets, loops, last_polled, swap, categorizer, fetch,
          metadata_cache, last_lookup, scoring, scored, is_running,
          clients, currentState, sockets, sent>>

(* the state of the position side, of the metrics engine, of the wallet    *)
(* monitor and of the data client; the metadata cache, the transactions    *)
(* in flight and the flag of the monitoring loops; the relay's clients,    *)
(* state and sockets                                                       *)
posVars == <<positions, calls, sellCount>>
metVars == <<token_metrics, last_tx, signals, last_signal, last_cleanup>>
walVars == <<wallets, loops, last_polled>>
cliVars == <<swap, categorizer, fetch>>
runVars == <<metadata_cache, last_lookup, scoring, scored, is_running>>
relayVars == <<clients, currentState, sockets, sent>>

(* ------------------------------ bounds -------------------------------- *)

MaxScore == 200
MaxEvents == 3
MaxNow == 1800
MaxIdle == 480

Tokens == {"T1", "T2", "T3"}
Categories == {"AI", "MEME", "HYBRID"}
Prices == {5, 8, 11, 16, 17, 22, 34}
SignalScores == {150, 200, 400}
Procs == {1, 2}
Wallets == {"W1", "W2"}
Amounts == {1, 2}

(* ------------------------- program constants -------------------------- *)

MAX_POSITIONS == 10
MAX_AI_POSITIONS == 8
MAX_MEME_POSITIONS == 2
max_retries == 5
TEST_PRICE == 10
TEST_TOKENS == 100
StopLossFraction == 8

PROFIT_LEVELS ==
  << [increase |-> 6,  sell_portion |-> 25],
     [increase |-> 12, sell_portion |-> 25],
     [increase |-> 18, sell_portion |-> 25],
     [increase |-> 24, sell_portion |-> 25] >>

Levels == 1..Len(PROFIT_LEVELS)

ENTRY_RULES ==
  [c \in Categories |->
     IF c = "MEME" THEN [score_threshold |-> 399, position_size |-> 25]
                   ELSE [score_threshold |-> 199, position_size |-> 50]]

(* a rule lookup that falls back on the AI rule *)
entry_rule_or_default(category) ==
  [found |-> TRUE,
   rule |-> IF category \in DOMAIN ENTRY_RULES THEN ENTRY_RULES[category]
            ELSE ENTRY_RULES["AI"]]

(* ENTRY_RULES[category]: found is FALSE when the lookup raises a KeyError, *)
(* and the rule is then never read                                         *)
entry_rule(category) ==
  [found |-> category \in DOMAIN ENTRY_RULES,
   rule |-> IF category \in DOMAIN ENTRY_RULES THEN ENTRY_RULES[category]
            ELSE ENTRY_RULES["AI"]]

(* ------------------------------ helpers ------------------------------- *)

Min(a, b) == IF a <= b THEN a ELSE b

NoPosition ==
  [category |-> "-", entry_price |-> 0, current_price |-> 0,
   tokens |-> 0, orig |-> 0, profit_levels_hit |-> {}, stop_loss |-> 0,
   r_pnl |-> 0, ur_pnl |-> 0, status |-> "None"]

(* the part of a Position that only the Position Manager mutates *)
Core(pos) ==
  [tokens |-> pos.tokens, r_pnl |-> pos.r_pnl,
   profit_levels_hit |-> pos.profit_levels_hit, status |-> pos.status]

NoCore == Core(NoPosition)

(* trigger price of take-profit level i: entry_price * (1 + increase) *)
target_price(pos, i) ==
  (pos.entry_price * (10 + PROFIT_LEVELS[i].increase)) \div 10

(* the portion taken of the tokens still held *)
tokens_to_sell_of_remaining(pos, i) ==
  (PROFIT_LEVELS[i].sell_portion * pos.tokens) \div 100

(* tokens sold at level i: the portion of the original quantity, capped *)
tokens_to_sell(pos, i) ==
  Min((PROFIT_LEVELS[i].sell_portion * pos.orig) \div 100, pos.tokens)

get_active_positions == {t \in Tokens : positions[t].status = "Open"}

calculate_position_size(category) ==
  LET base_size == entry_rule(category).rule.position_size
      active_positions == Cardinality(get_active_positions)
      category_positions ==
        Cardinality({t \in get_active_positions :
                       positions[t].category = category})
  IN  IF active_positions >= MAX_POSITIONS THEN 0
      ELSE IF category = "MEME" /\ category_positions >= MAX_MEME_POSITIONS
             THEN 0
      ELSE IF category \in {"AI", "HYBRID"}
              /\ category_positions >= MAX_AI_POSITIONS
             THEN 0
      ELSE base_size

(* process_token_signal: the signal qualifies at the category threshold;  *)
(* a KeyError of the rule lookup is caught and logged, without a buy       *)
meets_criteria(category, score) ==
  /\ entry_rule(category).found
  /\ score >= entry_rule(category).rule.score_threshold

has_open_position(t) == positions[t].status = "Open"

open_position(category, entry_price, tokens) ==
  [category |-> category, entry_price |-> entry_price,
   current_price |-> entry_price, tokens |-> tokens, orig |-> tokens,
   profit_levels_hit |-> {},
   stop_loss |-> (entry_price * StopLossFraction) \div 10,
   r_pnl |-> 0, ur_pnl |-> 0, status |-> "Open"]

(* update_position that values the quantity bought instead of held *)
update_position_of_original(pos, price) ==
  [pos EXCEPT !.current_price = price,
              !.ur_pnl = (price - pos.entry_price) * pos.orig]

(* update_position: new current price, unrealized PnL on what is held *)
update_position(pos, price) ==
  [pos EXCEPT !.current_price = price,
              !.ur_pnl = (price - pos.entry_price) * pos.tokens]

(* update_realized_pnl that books the proceeds of the sale *)
update_realized_pnl_proceeds(pos, tokens_sold, sell_price) ==
  LET left == pos.tokens - tokens_sold
  IN  [pos EXCEPT !.r_pnl = pos.r_pnl + sell_price * tokens_sold,
                  !.tokens = left,
                  !.ur_pnl = (pos.current_price - pos.entry_price) * left,
                  !.status = IF left <= 0 THEN "Closed" ELSE pos.status]

(* update_realized_pnl that leaves a sold-out position Open *)
update_realized_pnl_never_closes(pos, tokens_sold, sell_price) ==
  LET left == pos.tokens - tokens_sold
  IN  [pos EXCEPT !.r_pnl = pos.r_pnl + (sell_price - pos.entry_price) * tokens_sold,
                  !.tokens = left,
                  !.ur_pnl = (pos.current_price - pos.entry_price) * left]

(* update_realized_pnl: book the sale and take the tokens off the position *)
update_realized_pnl(pos, tokens_sold, sell_price) ==
  LET left == pos.tokens - tokens_sold
  IN  [pos EXCEPT !.r_pnl = pos.r_pnl + (sell_price - pos.entry_price) * tokens_sold,
                  !.tokens = left,
                  !.ur_pnl = (pos.current_price - pos.entry_price) * left,
                  !.status = IF left <= 0 THEN "Closed" ELSE pos.status]

(* variants of execute_take_profit with one slip each *)
execute_take_profit_replaces_set(pos, level_index, tokens_sold, signature) ==
  IF signature
    THEN [update_realized_pnl(pos, tokens_sold, target_price(pos, level_index))
            EXCEPT !.profit_levels_hit = {level_index}]
    ELSE pos

execute_take_profit_marks_unsold(pos, level_index, tokens_sold, signature) ==
  IF signature
    THEN [update_realized_pnl(pos, tokens_sold, target_price(pos, level_index))
            EXCEPT !.profit_levels_hit = pos.profit_levels_hit \cup {level_index}]
    ELSE [pos EXCEPT !.profit_levels_hit = pos.profit_levels_hit \cup {level_index}]

execute_take_profit_never_marks(pos, level_index, tokens_sold, signature) ==
  IF signature
    THEN update_realized_pnl(pos, tokens_sold, target_price(pos, level_index))
    ELSE pos

execute_take_profit_at_current_price(pos, level_index, tokens_sold, signature) ==
  IF signature
    THEN [update_realized_pnl(pos, tokens_sold, pos.current_price)
            EXCEPT !.profit_levels_hit = pos.profit_levels_hit \cup {level_index}]
    ELSE pos

(* execute_take_profit after the awaited swap returned `signature` *)
execute_take_profit(pos, level_index, tokens_sold, signature) ==
  IF signature
    THEN [update_realized_pnl(pos, tokens_sold, target_price(pos, level_index))
            EXCEPT !.profit_levels_hit = pos.profit_levels_hit \cup {level_index}]
    ELSE pos

(* exit_position after the awaited swap of the whole remainder returned *)
exit_position(pos, tokens_sold, signature) ==
  IF signature
    THEN [update_realized_pnl(pos, tokens_sold, pos.current_price)
            EXCEPT !.status = "Closed"]
    ELSE pos

(* take-profit levels reached by the price and not yet sold *)
due_levels(pos, price) ==
  {i \in Levels : price >= target_price(pos, i) /\ i \notin pos.profit_levels_hit}

(* the stop-loss test with a strict comparison *)
stop_loss_due_strict(pos, price) ==
  price < pos.stop_loss /\ pos.tokens > 0

stop_loss_due(pos, price) ==
  price <= pos.stop_loss /\ pos.tokens > 0

(* the walk taken from the top level downwards *)
highest(S) == CHOOSE i \in S : \A j \in S : i >= j

(* the first level of a walk in ascending order *)
lowest(S) == CHOOSE i \in S : \A j \in S : i <= j

(* what update_positions does next for a position at this price, having   *)
(* walked the take-profit levels up to `cursor`, in ascending order        *)
next_step(pos, price, cursor) ==
  LET due == {i \in due_levels(pos, price) : i > cursor}
  IN  IF pos.status # "Open" THEN [kind |-> "done", level |-> cursor]
      ELSE IF due # {} THEN [kind |-> "tp", level |-> lowest(due)]
      ELSE IF stop_loss_due(pos, price) THEN [kind |-> "sl", level |-> cursor]
      ELSE [kind |-> "done", level |-> cursor]

(* -------------------------- token categorizer ------------------------ *)

(* A text is the sequence of its whitespace-separated words.  Confidence   *)
(* is in tenths (0.7 is written 7).                                        *)
MaxWords == 3

Vocabulary ==
  {"AI-powered", "AI", "ai16z", "autonomous", "agent", "artificial",
   "intelligence", "pattern", "doge"}

Texts == UNION {[1..n -> Vocabulary] : n \in 0..MaxWords}

ai_signals ==
  [primary |-> {"ai", "artificial intelligence", "gpt", "claude", "llm",
                "backroom", "base model", "latent space", "ai16z"},
   secondary |-> {"neural", "autonomous", "model", "intelligence",
                  "existential", "infinite", "stealth", "synthetic",
                  "consciousness", "hyperspace", "mindscape", "sentient"},
   context |-> {"pattern", "simulation", "manifold", "entropy",
                "metameme", "egregore", "metacognition",
                "dreamtime", "semiotic", "recursive"}]

SignalTiers == {"primary", "secondary", "context"}

weights == [primary |-> 6, secondary |-> 3, context |-> 2]

(* str.lower on a word *)
lower(word) ==
  CASE word = "AI-powered" -> "ai-powered"
    [] word = "AI" -> "ai"
    [] OTHER -> word

(* text.lower().split() *)
split_lower(text) == [i \in DOMAIN text |-> lower(text[i])]

(* the pieces of a word between its word boundaries *)
word_pieces(word) ==
  IF word = "ai-powered" THEN <<"ai", "powered">> ELSE <<word>>

RECURSIVE tokenize(_)
tokenize(words) ==
  IF words = <<>> THEN <<>>
  ELSE word_pieces(Head(words)) \o tokenize(Tail(words))

(* the words of a lexicon entry: one for a single word, more for a phrase *)
entry_words(entry) ==
  CASE entry = "artificial intelligence" -> <<"artificial", "intelligence">>
    [] entry = "base model" -> <<"base", "model">>
    [] entry = "latent space" -> <<"latent", "space">>
    [] OTHER -> <<entry>>

(* a single word matches a whole token, a phrase matches a run of tokens *)
entry_matches(entry, tokens) ==
  LET ws == entry_words(entry)
  IN  \E i \in 1..Len(tokens) :
         /\ i + Len(ws) - 1 <= Len(tokens)
         /\ SubSeq(tokens, i, i + Len(ws) - 1) = ws

(* the analysis of a text the quick checks do not decide *)
full_analysis(words) ==
  [c \in SignalTiers |->
     {entry \in ai_signals[c] : entry_matches(entry, tokenize(words))}]

analyze_text(text) ==
  LET words == split_lower(text)
      in_words(w) == \E i \in DOMAIN words : words[i] = w
  IN  IF in_words("ai16z")
        THEN [primary |-> {"ai16z"}, secondary |-> {}, context |-> {}]
      ELSE IF in_words("ai")
        THEN [primary |-> {"ai"}, secondary |-> {}, context |-> {}]
      ELSE full_analysis(words)

(* calculate_confidence with one weight for every tier *)
calculate_confidence_one_weight(matched) ==
  Min(  Cardinality(matched.primary) * weights.context
      + Cardinality(matched.secondary) * weights.context
      + Cardinality(matched.context) * weights.context, 10)

calculate_confidence(matched) ==
  Min(  Cardinality(matched.primary) * weights.primary
      + Cardinality(matched.secondary) * weights.secondary
      + Cardinality(matched.context) * weights.context, 10)

category_of(confidence) ==
  IF confidence >= 7 THEN "AI"
  ELSE IF confidence >= 3 THEN "HYBRID"
  ELSE "MEME"

(* the analysis, the confidence and the category of a metadata text *)
categorize_text(text) ==
  LET matched == analyze_text(text)
      confidence == calculate_confidence(matched)
  IN  [matched |-> matched, confidence |-> confidence,
       category |-> category_of(confidence)]

(* name, symbol and description of the tokens *)
token_text ==
  [t \in Tokens |->
     IF t = "T1" THEN <<"AI-powered", "autonomous", "agent">>
     ELSE IF t = "T2" THEN <<"doge">>
     ELSE <<"autonomous", "doge">>]

categorize_token(t) ==
  LET r == categorize_text(token_text[t])
  IN  [category |-> r.category, confidence |-> r.confidence]

(* the categories of the tokens, as the categorizer gives them *)
token_category == [t \in Tokens |-> categorize_token(t)]

NoAnalysis ==
  [text |-> <<>>, done |-> FALSE,
   matched |-> [primary |-> {}, secondary |-> {}, context |-> {}],
   confidence |-> 0, category |-> "-"]

(* one call of the categorizer on the text it was handed *)
categorize ==
  /\ ~categorizer.done
  /\ categorizer' =
       LET r == categorize_text(categorizer.text)
       IN  [text |-> categorizer.text, done |-> TRUE, matched |-> r.matched,
            confidence |-> r.confidence, category |-> r.category]
  /\ UNCHANGED <<posVars, metVars, now, walVars, swap, fetch, runVars,
                 relayVars>>

(* --------------------------- token metrics --------------------------- *)

(* reputation score of the watched wallets *)
wallet_score == [w \in Wallets |-> IF w = "W1" THEN 10 ELSE 40]

NoMetrics ==
  [known |-> FALSE, category |-> "-", confidence |-> 0, score |-> 0,
   buy_count |-> 0, sell_count |-> 0, unique_buyers |-> {},
   last_update |-> 0]

(* get_or_create_metrics: the entry is created on the first transaction *)
get_or_create_metrics(t) ==
  IF token_metrics[t].known THEN token_metrics[t]
  ELSE [NoMetrics EXCEPT !.known = TRUE,
                         !.category = token_category[t].category,
                         !.confidence = token_category[t].confidence,
                         !.last_update = now]

(* the score a trade is worth: increasing in reputation and in trade size *)
score_change(w_score, amount) == w_score * amount

add_score(metrics, w_score, wallet_address, amount) ==
  [metrics EXCEPT !.score = metrics.score + score_change(w_score, amount),
                  !.buy_count = metrics.buy_count + 1,
                  !.unique_buyers = metrics.unique_buyers \cup {wallet_address},
                  !.last_update = now]

(* reduce_score without the clamp at zero *)
reduce_score_unclamped(metrics, w_score, amount) ==
  [metrics EXCEPT !.score = metrics.score - score_change(w_score, amount),
                  !.sell_count = metrics.sell_count + 1,
                  !.last_update = now]

reduce_score(metrics, w_score, amount) ==
  LET reduced == metrics.score - score_change(w_score, amount)
  IN  [metrics EXCEPT !.score = IF reduced < 0 THEN 0 ELSE reduced,
                      !.sell_count = metrics.sell_count + 1,
                      !.last_update = now]

SCORE_THRESHOLDS == [AI |-> 80, MEME |-> 150, HYBRID |-> 80]

get_token_score_threshold(category) == SCORE_THRESHOLDS[category]

(* the categories that have a score threshold *)
has_score_threshold(category) == category \in DOMAIN SCORE_THRESHOLDS

(* the signal check with a strict comparison *)
trading_signals_above(t, metrics) ==
  IF /\ has_score_threshold(metrics.category)
     /\ metrics.score > get_token_score_threshold(metrics.category)
    THEN {[token_address |-> t, category |-> metrics.category,
           score |-> metrics.score, confidence |-> metrics.confidence]}
  ELSE {}

(* the signals published after a score mutation of token t *)
trading_signals(t, metrics) ==
  IF /\ has_score_threshold(metrics.category)
     /\ metrics.score >= get_token_score_threshold(metrics.category)
    THEN {[token_address |-> t, category |-> metrics.category,
           score |-> metrics.score, confidence |-> metrics.confidence]}
  ELSE {}

(* last_tx and last_signal record what the engine did; they do not         *)
(* influence its steps.  NoSignal stands for "no signal emitted so far".   *)
NoSignal == 0 - 1

NoTx ==
  [token |-> "T1", tx_type |-> "none", change |-> 0, score_before |-> 0,
   prev_signal |-> NoSignal]

process_transaction(t, amount, tx_type, w) ==
  LET metrics == get_or_create_metrics(t)
      mutated == IF tx_type = "buy"
                   THEN add_score(metrics, wallet_score[w], w, amount)
                 ELSE IF tx_type = "sell"
                   THEN reduce_score(metrics, wallet_score[w], amount)
                 ELSE metrics
      published == trading_signals(t, mutated)
  IN  /\ metrics.buy_count + metrics.sell_count < MaxEvents
      /\ tx_type = "buy" =>
            metrics.score + score_change(wallet_score[w], amount) <= MaxScore
      /\ token_metrics' = [token_metrics EXCEPT ![t] = mutated]
      /\ signals' = published
      /\ last_signal' = IF published = {} THEN last_signal
                        ELSE [last_signal EXCEPT ![t] = mutated.score]
      /\ last_tx' = [token |-> t, tx_type |-> tx_type,
                     change |-> score_change(wallet_score[w], amount),
                     score_before |-> metrics.score,
                     prev_signal |-> last_signal[t]]
      /\ UNCHANGED <<posVars, last_cleanup, now, walVars, cliVars, runVars,
                     relayVars>>

(* the entry of a token whose metadata could not be fetched:               *)
(* categorize_token returns "UNCATEGORIZED", 0.0                           *)
create_uncategorized ==
  [NoMetrics EXCEPT !.known = TRUE, !.category = "UNCATEGORIZED",
                    !.confidence = 0, !.last_update = now]

(* process_transaction on a token whose metadata lookup fails *)
process_transaction_unresolved(t, amount, tx_type, w) ==
  LET metrics == IF token_metrics[t].known THEN token_metrics[t]
                 ELSE create_uncategorized
      mutated == IF tx_type = "buy"
                   THEN add_score(metrics, wallet_score[w], w, amount)
                 ELSE IF tx_type = "sell"
                   THEN reduce_score(metrics, wallet_score[w], amount)
                 ELSE metrics
      published == trading_signals(t, mutated)
  IN  /\ metrics.buy_count + metrics.sell_count < MaxEvents
      /\ tx_type = "buy" =>
            metrics.score + score_change(wallet_score[w], amount) <= MaxScore
      /\ token_metrics' = [token_metrics EXCEPT ![t] = mutated]
      /\ signals' = published
      /\ last_signal' = IF published = {} THEN last_signal
                        ELSE [last_signal EXCEPT ![t] = mutated.score]
      /\ last_tx' = [token |-> t, tx_type |-> tx_type,
                     change |-> score_change(wallet_score[w], amount),
                     score_before |-> metrics.score,
                     prev_signal |-> last_signal[t]]
      /\ UNCHANGED <<posVars, last_cleanup, now, walVars, cliVars, runVars,
                     relayVars>>

(* the clock, in minutes, up to a horizon *)
Tick(minutes, horizon) ==
  /\ now + minutes <= horizon
  /\ now' = now + minutes
  /\ UNCHANGED <<posVars, metVars, walVars, cliVars, runVars,
                 relayVars>>

(* last_cleanup records the last sweep; flip changes at every sweep *)
NoCleanup == [max_age_hours |-> 0, at |-> 0, flip |-> FALSE]

(* cleanup_old_tokens that drops an entry at the horizon itself *)
addresses_to_remove_at_horizon(max_age_hours) ==
  {address \in Tokens :
     LET metrics == token_metrics[address]
     IN  /\ metrics.known
         /\ now - metrics.last_update >= max_age_hours * 60
         /\ metrics.score = 0}

(* age = (now - last_update).total_seconds() / 3600 > max_age_hours *)
addresses_to_remove(max_age_hours) ==
  {address \in Tokens :
     LET metrics == token_metrics[address]
     IN  /\ metrics.known
         /\ now - metrics.last_update > max_age_hours * 60
         /\ metrics.score = 0}

cleanup_old_tokens(max_age_hours) ==
  /\ token_metrics' =
       [address \in Tokens |->
          IF address \in addresses_to_remove(max_age_hours) THEN NoMetrics
          ELSE token_metrics[address]]
  /\ last_cleanup' = [max_age_hours |-> max_age_hours, at |-> now,
                      flip |-> ~last_cleanup.flip]
  /\ UNCHANGED <<posVars, last_tx, signals, last_signal, now, walVars, cliVars,
                 runVars,
                 relayVars>>

(* --------------------------- wallet monitor -------------------------- *)

Statuses == {"VERY_ACTIVE", "ACTIVE", "WATCHING", "ASLEEP"}

(* the status update with the WATCHING window closed at 8 hours *)
derive_status_asleep_late(time_diff) ==
  IF time_diff <= 15 THEN "VERY_ACTIVE"
  ELSE IF time_diff <= 60 THEN "ACTIVE"
  ELSE IF time_diff <= 480 THEN "WATCHING"
  ELSE "ASLEEP"

(* status from the time since the last activity, in minutes *)
derive_status(time_diff) ==
  IF time_diff <= 15 THEN "VERY_ACTIVE"
  ELSE IF time_diff <= 60 THEN "ACTIVE"
  ELSE IF time_diff <= 240 THEN "WATCHING"
  ELSE "ASLEEP"

(* WalletTier(): the record of a wallet when it is first watched *)
WalletTier == [status |-> "WATCHING", last_active |-> now]

(* the status update applied to a wallet record *)
update_status(wallet) ==
  [wallet EXCEPT !.status = derive_status(now - wallet.last_active)]

(* a status read: the status is derived again from the last activity *)
read_status(w) == update_status(wallets[w]).status

(* activity seen on a wallet: last_active moves and the status follows *)
record_activity(wallet) ==
  LET active == [wallet EXCEPT !.last_active = now]
  IN  [active EXCEPT !.status = derive_status(now - active.last_active)]

(* recordActivity that stores the time of the transaction as given *)
recordActivity_stores_timestamp(wallet, timestamp) ==
  [wallet EXCEPT !.last_active = timestamp,
                 !.status = derive_status(now - timestamp)]

(* recordActivity(wallet, timestamp): any activity makes the wallet read   *)
(* VERY_ACTIVE, whatever the time of the transaction that showed it        *)
recordActivity(wallet, timestamp) == record_activity(wallet)

(* the three monitoring tasks and the statuses each one polls *)
Loops == {"active", "watching", "asleep"}

loop_statuses ==
  [l \in Loops |->
     IF l = "active" THEN {"VERY_ACTIVE", "ACTIVE"}
     ELSE IF l = "watching" THEN {"WATCHING"}
     ELSE {"ASLEEP"}]

SleepingLoop == [phase |-> "sleep", pending |-> {}]

NoPoll == [wallet |-> "-", loop |-> "-", response |-> "-"]

InitWallets ==
  /\ wallets = [w \in Wallets |-> WalletTier]
  /\ loops = [l \in Loops |-> SleepingLoop]
  /\ last_polled = NoPoll

(* get_wallet_transactions that lets the last error out *)
exhausted_fetch_raises == "raise"

(* what get_wallet_transactions returns once its retries are used up *)
exhausted_fetch == "None"

Responses == {"activity", "quiet", "failed"}

(* a loop that never looks at the flag *)
loop_condition_forever == TRUE

(* `while is_running:` *)
loop_condition == is_running

(* one round of a monitoring task, up to its first await: the statuses    *)
(* are derived again and the wallets of the task's statuses are taken     *)
monitor_wallets(l) ==
  LET derived == [w \in Wallets |-> update_status(wallets[w])]
      members == {w \in Wallets : derived[w].status \in loop_statuses[l]}
  IN  /\ loops[l].phase = "sleep"
      /\ loop_condition
      /\ wallets' = derived
      /\ loops' = [loops EXCEPT ![l] =
                     IF members = {} THEN SleepingLoop
                     ELSE [phase |-> "run", pending |-> members]]
      /\ UNCHANGED <<posVars, metVars, now, last_polled, cliVars, runVars,
                     relayVars>>

(* the age, in minutes, of a transaction when it is seen: the data client  *)
(* keeps the transactions of the last 15 minutes                           *)
Ages == {0, 10}

(* activity of wallet w seen in a transaction of the given age; last_polled *)
(* records whether the transaction is older than the stored last activity  *)
activity_observed(w, age) ==
  LET timestamp == now - age
  IN  /\ timestamp >= 0
      /\ wallets' = [wallets EXCEPT
                       ![w] = recordActivity(wallets[w], timestamp)]
      /\ last_polled' =
           [wallet |-> w, loop |-> "-",
            response |-> IF timestamp < wallets[w].last_active
                           THEN "older" ELSE "newer"]
      /\ UNCHANGED <<posVars, metVars, now, loops, cliVars, runVars,
                     relayVars>>

(* process_wallet in a task that runs one round and returns *)
process_wallet_stops_task(l, w, response) ==
  LET result == IF response = "failed" THEN exhausted_fetch ELSE "data"
      left == loops[l].pending \ {w}
  IN  /\ loops[l].phase = "run"
      /\ w \in loops[l].pending
      /\ wallets' = IF result = "data" /\ response = "activity"
                      THEN [wallets EXCEPT ![w] = record_activity(wallets[w])]
                    ELSE wallets
      /\ loops' = [loops EXCEPT ![l] =
                     IF result = "raise" \/ left = {}
                       THEN [phase |-> "dead", pending |-> {}]
                     ELSE [phase |-> "run", pending |-> left]]
      /\ last_polled' = [wallet |-> w, loop |-> l, response |-> response]
      /\ UNCHANGED <<posVars, metVars, now, cliVars, runVars,
                     relayVars>>

(* process_wallet of one wallet of the round: its transactions are        *)
(* fetched; an exception would leave process_wallets and end the task     *)
process_wallet(l, w, response) ==
  LET result == IF response = "failed" THEN exhausted_fetch ELSE "data"
      left == loops[l].pending \ {w}
  IN  /\ loops[l].phase = "run"
      /\ w \in loops[l].pending
      /\ wallets' = IF result = "data" /\ response = "activity"
                      THEN [wallets EXCEPT ![w] = record_activity(wallets[w])]
                    ELSE wallets
      /\ loops' = [loops EXCEPT ![l] =
                     IF result = "raise" THEN [phase |-> "dead", pending |-> {}]
                     ELSE IF left = {} THEN SleepingLoop
                     ELSE [phase |-> "run", pending |-> left]]
      /\ last_polled' = [wallet |-> w, loop |-> l, response |-> response]
      /\ UNCHANGED <<posVars, metVars, now, cliVars, runVars,
                     relayVars>>

(* ----------------------------- swap filter --------------------------- *)

MaxChanges == 2

WSOL_ADDRESS == "WSOL"

USDC_ADDRESS == "USDC"

(* tokens whose balance changes are no trade of a token: the reference    *)
(* assets and the stable assets                                            *)
IGNORED_TOKENS == {"WSOL", "USDC", "USDT"}

(* "" is the address of a change that carries none *)
Addresses == {"WSOL", "USDC", "USDT", "TOKEN", ""}

(* a balance change; has_amount is FALSE when the change has no 'amount' *)
Changes ==
  {[address |-> a, has_amount |-> TRUE, amount |-> m] :
      a \in Addresses, m \in {0, 5}}
  \cup {[address |-> a, has_amount |-> FALSE, amount |-> 0] : a \in Addresses}

(* a transaction with a balanceChange list, or without one *)
Txs ==
  {[has_balanceChange |-> TRUE, balanceChange |-> l] :
      l \in UNION {[1..n -> Changes] : n \in 0..MaxChanges}}
  \cup {[has_balanceChange |-> FALSE, balanceChange |-> <<>>]}

NoFlags == [sol_change |-> FALSE, usdc_change |-> FALSE, token_change |-> FALSE]

(* the loop body that takes any change of a reference asset *)
scan_change_any_amount(flags, change) ==
  LET address == change.address
  IN  IF address = WSOL_ADDRESS
        THEN [flags EXCEPT !.sol_change = TRUE]
      ELSE IF address = USDC_ADDRESS
        THEN [flags EXCEPT !.usdc_change = TRUE]
      ELSE IF address \notin IGNORED_TOKENS
        THEN [flags EXCEPT !.token_change = TRUE]
      ELSE flags

(* the loop body that takes a reference asset without amount for a token *)
scan_change_zero_is_token(flags, change) ==
  LET amount == IF change.has_amount THEN change.amount ELSE 0
      address == change.address
  IN  IF address = WSOL_ADDRESS /\ amount # 0
        THEN [flags EXCEPT !.sol_change = TRUE]
      ELSE IF address = USDC_ADDRESS /\ amount # 0
        THEN [flags EXCEPT !.usdc_change = TRUE]
      ELSE [flags EXCEPT !.token_change = TRUE]

(* the body of the loop over tx['balanceChange'] *)
scan_change(flags, change) ==
  LET amount == IF change.has_amount THEN change.amount ELSE 0
      address == change.address
  IN  IF address = WSOL_ADDRESS /\ amount # 0
        THEN [flags EXCEPT !.sol_change = TRUE]
      ELSE IF address = USDC_ADDRESS /\ amount # 0
        THEN [flags EXCEPT !.usdc_change = TRUE]
      ELSE IF address \notin IGNORED_TOKENS
        THEN [flags EXCEPT !.token_change = TRUE]
      ELSE flags

RECURSIVE scan_changes(_, _)
scan_changes(flags, changes) ==
  IF changes = <<>> THEN flags
  ELSE scan_changes(scan_change(flags, Head(changes)), Tail(changes))

is_real_swap(tx) ==
  IF ~tx.has_balanceChange THEN FALSE
  ELSE LET flags == scan_changes(NoFlags, tx.balanceChange)
       IN  flags.token_change /\ (flags.sol_change \/ flags.usdc_change)

NoSwap ==
  [tx |-> [has_balanceChange |-> FALSE, balanceChange |-> <<>>],
   done |-> FALSE, result |-> FALSE]

(* the filter applied to the transaction it was handed *)
filter_swap ==
  /\ ~swap.done
  /\ swap' = [swap EXCEPT !.done = TRUE, !.result = is_real_swap(swap.tx)]
  /\ UNCHANGED <<posVars, metVars, now, walVars, categorizer, fetch, runVars,
                 relayVars>>

(* ----------------------------- data client --------------------------- *)

MAX_RETRIES == 3

RETRY_DELAY == 2

(* what one request can come to: a response, or an exception *)
FetchResponses == {"ok", "rate_limit", "timeout", "auth_error"}

(* the sleep before a retry, without the growth *)
retry_sleep_constant(attempt) == RETRY_DELAY

(* asyncio.sleep(retry_delay * (attempt + 1)) *)
retry_sleep(attempt) == RETRY_DELAY * (attempt + 1)

(* responses and slept record the attempts made and the delays slept *)
NoFetch ==
  [phase |-> "idle", wallet |-> "-", initial_scan |-> FALSE, attempt |-> 0,
   result |-> "-", responses |-> <<>>, slept |-> <<>>]

(* get_wallet_transactions up to its first request *)
get_wallet_transactions(wallet, initial_scan) ==
  /\ fetch.phase = "idle"
  /\ fetch' = [NoFetch EXCEPT !.phase = "request", !.wallet = wallet,
                              !.initial_scan = initial_scan]
  /\ UNCHANGED <<posVars, metVars, now, walVars, swap, categorizer, runVars,
                 relayVars>>

(* the request of this attempt returns or raises *)
fetch_response(response) ==
  /\ fetch.phase = "request"
  /\ fetch' =
       LET seen == [fetch EXCEPT !.responses = Append(fetch.responses, response)]
       IN  IF response = "ok"
             THEN [seen EXCEPT !.phase = "returned",
                     !.result = IF fetch.initial_scan THEN "recent" ELSE "data"]
           ELSE IF fetch.attempt = MAX_RETRIES - 1
             THEN [seen EXCEPT !.phase = "returned", !.result = exhausted_fetch]
           ELSE [seen EXCEPT !.phase = "sleep",
                   !.slept = Append(fetch.slept, retry_sleep(fetch.attempt))]
  /\ UNCHANGED <<posVars, metVars, now, walVars, swap, categorizer, runVars,
                 relayVars>>

(* the sleep is over: the next attempt *)
fetch_retry ==
  /\ fetch.phase = "sleep"
  /\ fetch' = [fetch EXCEPT !.phase = "request", !.attempt = fetch.attempt + 1]
  /\ UNCHANGED <<posVars, metVars, now, walVars, swap, categorizer, runVars,
                 relayVars>>

(* ---------------------------- token metadata -------------------------- *)

(* a token that is not a key of metadata_cache; what a failed lookup gives *)
Absent == "absent"

NoData == "None"

(* the metadata the provider can answer with, and the text of each *)
Descriptions == {"D1", "D2", "D3"}

description_text ==
  [d \in Descriptions |->
     IF d = "D1" THEN token_text["T1"]
     ELSE IF d = "D2" THEN token_text["T2"]
     ELSE token_text["T3"]]

(* what the metadata request can come to: data, an empty data field, or    *)
(* an exception                                                            *)
MetadataResponses == Descriptions \cup {"empty", "error"}

(* a lookup that never finds the token in the cache *)
cache_hit_never(cache, t) == FALSE

(* `if token_address in self.metadata_cache` *)
cache_hit(cache, t) == cache[t] # Absent

(* the data of a response: response.json().get('data', {}), None on error *)
response_data(response) ==
  IF response \in Descriptions THEN response ELSE NoData

(* a cache that keeps whatever the request gave *)
cache_store_any(cache, t, data) == [cache EXCEPT ![t] = data]

(* `if data: self.metadata_cache[token_address] = data` *)
cache_store(cache, t, data) ==
  IF data # NoData THEN [cache EXCEPT ![t] = data] ELSE cache

(* get_token_metadata: the data returned, the cache afterwards and         *)
(* whether the provider was called                                         *)
get_token_metadata(cache, t, response) ==
  IF cache_hit(cache, t)
    THEN [data |-> cache[t], cache |-> cache, requested |-> FALSE]
  ELSE [data |-> response_data(response),
        cache |-> cache_store(cache, t, response_data(response)),
        requested |-> TRUE]

(* the category of every metadata text *)
description_category ==
  [d \in Descriptions |-> categorize_text(description_text[d])]

(* categorize_token on the metadata it was given *)
categorize_metadata(metadata) ==
  IF metadata = NoData
    THEN [category |-> "UNCATEGORIZED", confidence |-> 0]
  ELSE [category |-> description_category[metadata].category,
        confidence |-> description_category[metadata].confidence]

(* last_lookup records the last categorization and the tokens whose fetch  *)
(* has failed so far; it does not influence the steps                      *)
NoLookup ==
  [token |-> "-", before |-> Absent, requested |-> FALSE, response |-> "-",
   data |-> NoData, category |-> "-", confidence |-> 0, failed |-> {}]

(* categorize_token(t): the metadata lookup and the categorization of      *)
(* what it returned                                                        *)
categorize_fetched(t, response) ==
  LET found == get_token_metadata(metadata_cache, t, response)
      result == categorize_metadata(found.data)
  IN  /\ metadata_cache' = found.cache
      /\ last_lookup' =
           [token |-> t, before |-> metadata_cache[t],
            requested |-> found.requested,
            response |-> IF found.requested THEN response ELSE "-",
            data |-> found.data, category |-> result.category,
            confidence |-> result.confidence,
            failed |-> IF found.requested /\ found.data = NoData
                         THEN last_lookup.failed \cup {t}
                       ELSE last_lookup.failed]
      /\ UNCHANGED <<posVars, metVars, now, walVars, cliVars,
                     scoring, scored, is_running,
                     relayVars>>

(* ------------------- concurrent transaction processing ---------------- *)

(* a tier loop's process_transaction: idle, or suspended in                *)
(* get_or_create_metrics at the metadata fetch of a token without entry    *)
IdleScoring ==
  [phase |-> "idle", token |-> "-", amount |-> 0, tx_type |-> "-",
   wallet |-> "-"]

(* scored records the swaps whose processing is over, in that order, and   *)
(* how often an entry was created per token; it does not influence steps   *)
NoScored == [done |-> <<>>, created |-> [t \in Tokens |-> 0]]

(* the entry get_or_create_metrics makes for a token it did not find *)
create_metrics(t) ==
  [NoMetrics EXCEPT !.known = TRUE,
                    !.category = token_category[t].category,
                    !.confidence = token_category[t].confidence,
                    !.last_update = now]

(* the score mutation of process_transaction *)
mutate_metrics(metrics, amount, tx_type, w) ==
  IF tx_type = "buy" THEN add_score(metrics, wallet_score[w], w, amount)
  ELSE IF tx_type = "sell" THEN reduce_score(metrics, wallet_score[w], amount)
  ELSE metrics

(* the number of swaps taken up so far *)
TakenUp ==
  Len(scored.done) + Cardinality({l \in Loops : scoring[l].phase = "fetch"})

(* process_transaction of loop l up to its first suspension: an entry      *)
(* that exists is mutated at once; a missing entry waits for the metadata  *)
score_begin(l, t, amount, tx_type, w) ==
  LET swap_seen == [token |-> t, tx_type |-> tx_type, wallet |-> w,
                    amount |-> amount]
      mutated == mutate_metrics(token_metrics[t], amount, tx_type, w)
  IN  /\ scoring[l].phase = "idle"
      /\ TakenUp < MaxEvents
      /\ IF token_metrics[t].known
           THEN /\ mutated.score <= MaxScore
                /\ token_metrics' = [token_metrics EXCEPT ![t] = mutated]
                /\ signals' = trading_signals(t, mutated)
                /\ scored' = [scored EXCEPT !.done = Append(@, swap_seen)]
                /\ UNCHANGED scoring
         ELSE /\ scoring' = [scoring EXCEPT ![l] =
                               [phase |-> "fetch", token |-> t,
                                amount |-> amount, tx_type |-> tx_type,
                                wallet |-> w]]
              /\ UNCHANGED <<token_metrics, signals, scored>>
      /\ UNCHANGED <<posVars, last_tx, last_signal, last_cleanup, now,
                     walVars, cliVars, metadata_cache, last_lookup,
                     is_running,
                     relayVars>>

(* the metadata fetch is over: the entry is made and stored under the      *)
(* token, then mutated, and the signals are published                      *)
score_resume(l) ==
  LET call == scoring[l]
      t == call.token
      swap_seen == [token |-> t, tx_type |-> call.tx_type,
                    wallet |-> call.wallet, amount |-> call.amount]
      mutated == mutate_metrics(create_metrics(t), call.amount,
                                call.tx_type, call.wallet)
  IN  /\ call.phase = "fetch"
      /\ token_metrics' = [token_metrics EXCEPT ![t] = mutated]
      /\ signals' = trading_signals(t, mutated)
      /\ scoring' = [scoring EXCEPT ![l] = IdleScoring]
      /\ scored' = [done |-> Append(scored.done, swap_seen),
                    created |-> [scored.created EXCEPT ![t] = @ + 1]]
      /\ UNCHANGED <<posVars, last_tx, last_signal, last_cleanup, now,
                     walVars, cliVars, metadata_cache, last_lookup,
                     is_running,
                     relayVars>>

(* ------------------------------ shutdown ------------------------------ *)

(* the request to stop: the flag the loops test is cleared *)
shutdown ==
  /\ is_running
  /\ is_running' = FALSE
  /\ UNCHANGED <<posVars, metVars, now, walVars, cliVars, metadata_cache,
                 last_lookup, scoring, scored,
                 relayVars>>

(* a loop whose sleep is over finds the flag cleared and returns *)
monitor_exit(l) ==
  /\ loops[l].phase = "sleep"
  /\ ~loop_condition
  /\ loops' = [loops EXCEPT ![l] = [phase |-> "exited", pending |-> {}]]
  /\ UNCHANGED <<posVars, metVars, now, wallets, last_polled, cliVars,
                 runVars,
                 relayVars>>

(* ----------------------------- relay server --------------------------- *)

(* The relay keeps one state object and the set of connected sockets.  A   *)
(* JSON object is written as a record of its fields with keys, the set of  *)
(* the fields it has, and nulls, the fields whose value is null; an array  *)
(* or an object, also an empty one, is a truthy value.  Token metrics are  *)
(* a map from token address to a value, 0 standing for "no such key".     *)
Clients == {"c1", "c2"}

(* the client that sends updates; the other one only listens *)
Senders == {"c1"}

RelayTokens == {"AVB", "YUMI"}

OtherFields ==
  {"recent_transactions", "wallet_status", "wallets_checked",
   "transactions_processed", "start_time"}

Fields == {"token_metrics", "active_positions"} \cup OtherFields

(* position lists as the test client sends them, "token:tokens held": two  *)
(* positions, then one sold by half with the other one closed, and the     *)
(* empty list that is left when the last position is closed                *)
PositionLists == {<<>>, <<"AVB:596974", "YUMI:138100">>, <<"AVB:298487">>}

MetricMaps == {[AVB |-> 0, YUMI |-> 0], [AVB |-> 1, YUMI |-> 0],
               [AVB |-> 2, YUMI |-> 0], [AVB |-> 0, YUMI |-> 1]}

NoMetricMap == [t \in RelayTokens |-> 0]

(* let currentState = { ... } *)
InitialState ==
  [nulls |-> {}, token_metrics |-> NoMetricMap, active_positions |-> <<>>,
   recent_transactions |-> 0, wallet_status |-> 0, wallets_checked |-> 0,
   transactions_processed |-> 0, start_time |-> 0]

(* the fields a client message can have *)
KeySets == {{"active_positions"}, {"token_metrics"}, OtherFields, Fields}

(* the JSON objects clients send: a field the object has not keeps the     *)
(* value of InitialState here, and so does a null field; the counters and  *)
(* the other fields of a message are new values                            *)
Objects ==
  {d \in [keys : KeySets, nulls : SUBSET {"token_metrics", "active_positions"},
          token_metrics : MetricMaps, active_positions : PositionLists,
          recent_transactions : 0..1, wallet_status : 0..1,
          wallets_checked : 0..1, transactions_processed : 0..1,
          start_time : 0..1] :
     /\ d.nulls \subseteq d.keys
     /\ \A f \in Fields :
          (f \notin d.keys \/ f \in d.nulls) => d[f] = InitialState[f]
     /\ \A f \in OtherFields : d[f] = IF f \in d.keys THEN 1 ELSE 0
     /\ {"active_positions", "token_metrics"} \subseteq d.keys =>
          d.token_metrics \in {NoMetricMap, [AVB |-> 2, YUMI |-> 0]}}

NoObject == InitialState

(* what a client sends: text that is not JSON, the JSON texts null and a   *)
(* number, or a JSON object                                                *)
Messages ==
  {[kind |-> k, keys |-> {}, data |-> NoObject] :
      k \in {"garbage", "null", "number"}}
    \cup {[kind |-> "object", keys |-> d.keys,
           data |-> [f \in DOMAIN InitialState |-> d[f]]] : d \in Objects}

(* JSON.parse: throws on text that is not JSON *)
JSON_parse(message) ==
  [threw |-> message.kind = "garbage", data |-> message]

(* Object.keys(x): throws a TypeError when x is null *)
keys_throws(isNull) == isNull

(* `if (data.x)` on parsed data: a number has no properties, a field of an *)
(* object is truthy unless it is missing or null                           *)
truthy(data, f) ==
  data.kind = "object" /\ f \in data.keys /\ f \notin data.data.nulls

(* metrics that are replaced by those of the message *)
replace_metrics(state, data) ==
  [state EXCEPT !.token_metrics = data.data.token_metrics]

(* { ...currentState.token_metrics, ...data.token_metrics } *)
merge_metrics(state, data) ==
  [state EXCEPT
     !.token_metrics =
        [t \in RelayTokens |->
           IF data.data.token_metrics[t] # 0 THEN data.data.token_metrics[t]
           ELSE state.token_metrics[t]]]

(* a position branch that never shortens the list *)
keep_positions(state, data) ==
  IF Len(data.data.active_positions) < Len(state.active_positions)
       /\ "active_positions" \notin state.nulls
    THEN state
  ELSE [state EXCEPT !.active_positions = data.data.active_positions,
                     !.nulls = state.nulls \ {"active_positions"}]

(* a position branch that takes every field of the message *)
replace_positions_and_rest(state, data) ==
  [f \in DOMAIN InitialState |->
     IF f = "nulls" THEN (state.nulls \ data.keys) \cup data.data.nulls
     ELSE IF f \in data.keys THEN data.data[f] ELSE state[f]]

(* currentState.active_positions = data.active_positions *)
replace_positions(state, data) ==
  [state EXCEPT !.active_positions = data.data.active_positions,
                !.nulls = state.nulls \ {"active_positions"}]

(* { ...currentState, ...data }: every field of data, null ones too *)
spread(state, data) ==
  [f \in DOMAIN InitialState |->
     IF f = "nulls" THEN (state.nulls \ data.keys) \cup data.data.nulls
     ELSE IF f \in data.keys THEN data.data[f] ELSE state[f]]

(* the branch of the handler that a parsed message takes *)
branch(data) ==
  IF truthy(data, "active_positions") THEN "positions"
  ELSE IF truthy(data, "token_metrics") THEN "metrics"
  ELSE "other"

(* the body of the try block after a successful parse *)
update_state(state, data) ==
  IF branch(data) = "positions" THEN replace_positions(state, data)
  ELSE IF branch(data) = "metrics" THEN merge_metrics(state, data)
  ELSE spread(state, data)

(* the TypeErrors of the try block: Object.keys(data) of the logging line  *)
(* for the JSON value null, Object.keys(currentState.token_metrics) of the *)
(* metrics branch when the stored metrics are null                         *)
processing_throws(state, data) ==
  \/ keys_throws(data.kind = "null")
  \/ /\ branch(data) = "metrics"
     /\ keys_throws("token_metrics" \in state.nulls)

(* a handler that answers a message it cannot handle with a broadcast *)
handle_message_always_broadcasts(state, message) ==
  LET parsed == JSON_parse(message)
  IN  IF parsed.threw \/ processing_throws(state, parsed.data)
        THEN [threw |-> FALSE, state |-> state]
      ELSE [threw |-> FALSE, state |-> update_state(state, parsed.data)]

(* ws.on('message'): the try block; threw says that the catch ran *)
handle_message(state, message) ==
  LET parsed == JSON_parse(message)
  IN  IF parsed.threw \/ processing_throws(state, parsed.data)
        THEN [threw |-> TRUE, state |-> state]
      ELSE [threw |-> FALSE, state |-> update_state(state, parsed.data)]

(* what the handler did with a message: the branch taken for an object *)
handled_as(message) ==
  IF message.kind = "object" THEN branch(message) ELSE message.kind

(* sockets: readyState, the isAlive mark, pinged, which records that a     *)
(* ping is not answered yet, and terminated, which records that the ping   *)
(* interval called ws.terminate()                                          *)
NoSocket ==
  [readyState |-> "NONE", isAlive |-> FALSE, pinged |-> FALSE,
   terminated |-> FALSE]

(* wss.clients: the sockets the server has not closed *)
wss_clients == {c \in Clients : sockets[c].readyState \in {"OPEN", "CLOSING"}}

(* sent records the last send of the server (to, state), the last message  *)
(* handled (from, kind), the clients whose message ended in the catch      *)
(* (rejected), whether the last message did (threw), and the number of     *)
(* positions stored before the last position update (before);              *)
(* it does not influence the steps                                         *)
NoSent ==
  [to |-> {}, state |-> InitialState, from |-> "-", kind |-> "-",
   rejected |-> {}, threw |-> FALSE, before |-> 0]

(* a broadcast that does not look at readyState *)
recipients_all(set) == set

(* broadcast: `for (const client of clients) if (readyState === OPEN)` *)
recipients(set) == {c \in set : sockets[c].readyState = "OPEN"}

InitRelay ==
  /\ clients = {}
  /\ currentState = InitialState
  /\ sockets = [c \in Clients |-> NoSocket]
  /\ sent = NoSent

(* wss.on('connection'): the socket joins the set and gets the state *)
connection(c) ==
  /\ sockets[c].readyState = "NONE"
  /\ sockets' = [sockets EXCEPT ![c] =
                   [readyState |-> "OPEN", isAlive |-> TRUE, pinged |-> FALSE,
                    terminated |-> FALSE]]
  /\ clients' = clients \cup {c}
  /\ sent' = [sent EXCEPT !.to = {c}, !.state = currentState,
                          !.from = "-", !.kind = "-", !.threw = FALSE,
                          !.before = 0]
  /\ UNCHANGED <<posVars, metVars, now, walVars, cliVars, runVars,
                 currentState>>

(* ws.on('message') of socket c *)
on_message(c, message) ==
  LET handled == handle_message(currentState, message)
  IN  /\ sockets[c].readyState = "OPEN"
      /\ currentState' = handled.state
      /\ sent' = IF handled.threw
                   THEN [sent EXCEPT !.from = c, !.kind = handled_as(message),
                                     !.to = {}, !.threw = TRUE,
                                     !.before = 0,
                                     !.rejected = sent.rejected \cup {c}]
                 ELSE [sent EXCEPT !.from = c, !.kind = handled_as(message),
                                   !.to = recipients(clients),
                                   !.threw = FALSE,
                                   !.before =
                                      IF handled_as(message) = "positions"
                                        THEN Len(currentState.active_positions)
                                      ELSE 0,
                                   !.state = handled.state]
      /\ UNCHANGED <<posVars, metVars, now, walVars, cliVars, runVars,
                     clients, sockets>>

(* the peer starts to close, or the connection is lost *)
closing(c) ==
  /\ sockets[c].readyState = "OPEN"
  /\ sockets' = [sockets EXCEPT ![c].readyState = "CLOSING"]
  /\ UNCHANGED <<posVars, metVars, now, walVars, cliVars, runVars,
                 clients, currentState, sent>>

(* ws.on('close') *)
on_close(c) ==
  /\ sockets[c].readyState = "CLOSING"
  /\ sockets' = [sockets EXCEPT ![c].readyState = "CLOSED"]
  /\ clients' = clients \ {c}
  /\ UNCHANGED <<posVars, metVars, now, walVars, cliVars, runVars,
                 currentState, sent>>

(* ws.on('error') *)
on_error(c) ==
  /\ sockets[c].readyState \in {"OPEN", "CLOSING"}
  /\ c \in clients
  /\ clients' = clients \ {c}
  /\ UNCHANGED <<posVars, metVars, now, walVars, cliVars, runVars,
                 currentState, sockets, sent>>

(* a pong handler that leaves the mark alone *)
heartbeat_ignored(socket) == [socket EXCEPT !.pinged = FALSE]

(* function heartbeat: the pong of a socket marks it alive *)
heartbeat(socket) == [socket EXCEPT !.isAlive = TRUE, !.pinged = FALSE]

(* ws.on('pong'): the client answers the ping it got *)
on_pong(c) ==
  /\ sockets[c].readyState = "OPEN"
  /\ sockets[c].pinged
  /\ sockets' = [sockets EXCEPT ![c] = heartbeat(sockets[c])]
  /\ UNCHANGED <<posVars, metVars, now, walVars, cliVars, runVars,
                 clients, currentState, sent>>

(* the setInterval callback: a socket not marked alive is terminated, the  *)
(* others are unmarked and pinged                                          *)
ping_round ==
  /\ wss_clients # {}
  /\ sockets' =
       [c \in Clients |->
          IF c \notin wss_clients THEN sockets[c]
          ELSE IF sockets[c].isAlive = FALSE
            THEN [sockets[c] EXCEPT !.readyState = "CLOSING",
                                    !.terminated = TRUE]
          ELSE [sockets[c] EXCEPT !.isAlive = FALSE,
                                  !.pinged = (sockets[c].readyState = "OPEN")]]
  /\ UNCHANGED <<posVars, metVars, now, walVars, cliVars, runVars,
                 clients, currentState, sent>>

(* the metadata cache is empty, no transaction is in flight, the loops run *)
InitRun ==
  /\ metadata_cache = [t \in Tokens |-> Absent]
  /\ last_lookup = NoLookup
  /\ scoring = [l \in Loops |-> IdleScoring]
  /\ scored = NoScored
  /\ is_running = TRUE

(* ---------------------------- handlers -------------------------------- *)

(* A handler is idle ("done"), suspended at the awaited buy or sell, or    *)
(* about to return ("return").  before, pre, reqs, attempt, repeat and     *)
(* repeatOk record what the handler saw; they do not influence its steps.  *)
IdleCall ==
  [op |-> "none", phase |-> "done", token |-> "T1", category |-> "-",
   price |-> 0, kind |-> "-", level |-> 0, qty |-> 0, attempt |-> 0,
   result |-> "none", reqs |-> 0, before |-> NoCore, pre |-> NoCore,
   repeat |-> FALSE, repeatOk |-> FALSE]

(* the handler's body is over: it returns `result` to its caller *)
Finished(call, result) == [call EXCEPT !.phase = "return", !.result = result]

Init ==
  /\ positions = [t \in Tokens |-> NoPosition]
  /\ calls = [p \in Procs |-> IdleCall]
  /\ sellCount = [t \in Tokens |-> [i \in Levels |-> 0]]
  /\ token_metrics = [t \in Tokens |-> NoMetrics]
  /\ last_tx = NoTx
  /\ signals = {}
  /\ last_signal = [t \in Tokens |-> NoSignal]
  /\ last_cleanup = NoCleanup
  /\ now = 0
  /\ InitWallets
  /\ swap = NoSwap
  /\ categorizer = NoAnalysis
  /\ fetch = NoFetch
  /\ InitRun
  /\ InitRelay

Idle(p) == calls[p].phase = "done"

(* handler slots are interchangeable: a new handler takes the lowest idle one *)
Free(p) == Idle(p) /\ \A q \in Procs : q < p => ~Idle(q)

(* handle_signal returns without a buy: criteria, open position or caps *)
SignalRejected(p, t, c, score) ==
  /\ Free(p)
  /\ \/ ~meets_criteria(c, score)
     \/ has_open_position(t)
     \/ calculate_position_size(c) = 0
  /\ calls' = [calls EXCEPT ![p] =
       Finished([IdleCall EXCEPT !.op = "signal", !.token = t, !.category = c,
                                 !.before = Core(positions[t])], "rejected")]
  /\ UNCHANGED <<positions, sellCount, token_metrics, last_tx>>
  /\ UNCHANGED <<signals, last_signal, last_cleanup, now, walVars, cliVars,
                 runVars,
                 relayVars>>

(* handle_signal passes the checks and awaits the buy *)
SignalAccepted(p, t, c, score) ==
  /\ Free(p)
  /\ meets_criteria(c, score)
  /\ ~has_open_position(t)
  /\ calculate_position_size(c) # 0
  /\ calls' = [calls EXCEPT ![p] =
       [IdleCall EXCEPT !.op = "signal", !.phase = "buy", !.token = t,
                        !.category = c, !.attempt = 0, !.reqs = 1,
                        !.before = Core(positions[t])]]
  /\ UNCHANGED <<positions, sellCount, token_metrics, last_tx>>
  /\ UNCHANGED <<signals, last_signal, last_cleanup, now, walVars, cliVars,
                 runVars,
                 relayVars>>

(* the awaited buy confirmed: track_position creates the Position *)
BuyConfirmed(p) ==
  /\ calls[p].phase = "buy"
  /\ LET t == calls[p].token
     IN  /\ positions' = [positions EXCEPT ![t] =
               open_position(calls[p].category,
                             TEST_PRICE, TEST_TOKENS)]
         /\ sellCount' = [sellCount EXCEPT ![t] = [i \in Levels |-> 0]]
         /\ calls' = [calls EXCEPT ![p] =
               Finished([calls[p] EXCEPT !.pre = Core(positions[t])], "ok")]
  /\ UNCHANGED <<token_metrics, last_tx>>
  /\ UNCHANGED <<signals, last_signal, last_cleanup, now, walVars, cliVars,
                 runVars,
                 relayVars>>

(* a failed buy that is tracked like a confirmed one *)
BuyFailed_tracked(p) ==
  /\ calls[p].phase = "buy"
  /\ positions' = [positions EXCEPT ![calls[p].token] =
        open_position(calls[p].category, TEST_PRICE, TEST_TOKENS)]
  /\ calls' = [calls EXCEPT ![p] =
       Finished([calls[p] EXCEPT !.pre = Core(positions[calls[p].token]),
                                 !.attempt = max_retries], "error")]
  /\ UNCHANGED <<sellCount, token_metrics, last_tx>>
  /\ UNCHANGED <<signals, last_signal, last_cleanup, now, walVars, cliVars,
                 runVars,
                 relayVars>>

(* confirm_transaction failed max_retries times and raised: no position *)
BuyFailed(p) ==
  /\ calls[p].phase = "buy"
  /\ calls' = [calls EXCEPT ![p] =
       Finished([calls[p] EXCEPT !.pre = Core(positions[calls[p].token]),
                                 !.attempt = max_retries], "error")]
  /\ UNCHANGED <<positions, sellCount, token_metrics, last_tx>>
  /\ UNCHANGED <<signals, last_signal, last_cleanup, now, walVars, cliVars,
                 runVars,
                 relayVars>>

(* the handler's next suspension point (or its end) for position pos *)
Proceed(call, pos) ==
  LET step == next_step(pos, call.price, call.level)
  IN  IF step.kind = "tp" /\ call.kind # "sl"
        THEN [call EXCEPT !.phase = "sell", !.kind = "tp", !.level = step.level,
                          !.qty = tokens_to_sell(pos, step.level),
                          !.reqs = call.reqs + 1, !.pre = Core(pos)]
      ELSE IF step.kind = "sl" /\ call.kind # "sl"
        THEN [call EXCEPT !.phase = "sell", !.kind = "sl",
                          !.qty = pos.tokens,
                          !.reqs = call.reqs + 1, !.pre = Core(pos)]
      ELSE Finished(call, "ok")

(* update_positions for one position, up to its first await (or its end); *)
(* prev is the handler of this caller that has just returned, if any       *)
update_one(p, t, price, prev) ==
  LET old == positions[t]
      pos == IF old.status = "Open" THEN update_position(old, price) ELSE old
      same == prev.op = "update" /\ prev.token = t /\ prev.price = price
      call == [IdleCall EXCEPT !.op = "update", !.token = t, !.price = price,
                   !.before = Core(old), !.pre = Core(old), !.repeat = same,
                   !.repeatOk = (same /\ prev.result = "ok")]
  IN  /\ positions' = [positions EXCEPT ![t] = pos]
      /\ calls' = [calls EXCEPT ![p] = Proceed(call, pos)]
      /\ UNCHANGED <<sellCount, token_metrics, last_tx>>
      /\ UNCHANGED <<signals, last_signal, last_cleanup, now, walVars, cliVars,
                 runVars,
                 relayVars>>

UpdatePosition(p, t, price) ==
  /\ Free(p)
  /\ update_one(p, t, price, IdleCall)

(* the next tick finds the same price: the same update is called again *)
UpdatePositionAgain(p) ==
  /\ calls[p].phase = "return"
  /\ calls[p].op = "update"
  /\ ~calls[p].repeat
  /\ update_one(p, calls[p].token, calls[p].price, calls[p])

(* the awaited sell confirmed: book it and go on with the walk *)
SellConfirmed(p) ==
  /\ calls[p].phase = "sell"
  /\ LET t == calls[p].token
         c == calls[p]
         pos == IF c.kind = "tp"
                  THEN execute_take_profit(positions[t], c.level, c.qty, TRUE)
                  ELSE exit_position(positions[t], c.qty, TRUE)
     IN  /\ positions' = [positions EXCEPT ![t] = pos]
         /\ sellCount' = IF c.kind = "tp"
                           THEN [sellCount EXCEPT ![t][c.level] = @ + 1]
                           ELSE sellCount
         /\ calls' = [calls EXCEPT ![p] = Proceed(c, pos)]
  /\ UNCHANGED <<token_metrics, last_tx>>
  /\ UNCHANGED <<signals, last_signal, last_cleanup, now, walVars, cliVars,
                 runVars,
                 relayVars>>

(* confirm_transaction failed max_retries times: the exception ends the  *)
(* update of this position                                              *)
SellFailed(p) ==
  /\ calls[p].phase = "sell"
  /\ LET t == calls[p].token
         c == calls[p]
         pos == IF c.kind = "tp"
                  THEN execute_take_profit(positions[t], c.level, c.qty, FALSE)
                  ELSE exit_position(positions[t], c.qty, FALSE)
     IN  positions' = [positions EXCEPT ![t] = pos]
  /\ calls' = [calls EXCEPT ![p] =
       Finished([calls[p] EXCEPT !.attempt = max_retries], "error")]
  /\ UNCHANGED <<sellCount, token_metrics, last_tx>>
  /\ UNCHANGED <<signals, last_signal, last_cleanup, now, walVars, cliVars,
                 runVars,
                 relayVars>>

(* the handler returns to its caller *)
Return(p) ==
  /\ calls[p].phase = "return"
  /\ calls' = [calls EXCEPT ![p] = IdleCall]
  /\ UNCHANGED <<positions, sellCount, token_metrics, last_tx>>
  /\ UNCHANGED <<signals, last_signal, last_cleanup, now, walVars, cliVars,
                 runVars,
                 relayVars>>

PositionStep(P, T, C, U, PR) ==
  \/ \E p \in P, t \in T, c \in C, s \in SignalScores :
        SignalRejected(p, t, c, s)
  \/ \E p \in P, t \in T, c \in C, s \in SignalScores :
        SignalAccepted(p, t, c, s)
  \/ \E p \in P : BuyConfirmed(p)
  \/ \E p \in P : BuyFailed(p)
  \/ \E p \in P, t \in U, price \in PR : UpdatePosition(p, t, price)
  \/ \E p \in P : SellConfirmed(p)
  \/ \E p \in P : SellFailed(p)
  \/ \E p \in P : UpdatePositionAgain(p)
  \/ \E p \in P : Return(p)

(* one handler at a time *)
SeqTokens == {"T1", "T2"}

NextSeq == PositionStep({1}, SeqTokens, Categories, SeqTokens, Prices)

SpecSeq == Init /\ [][NextSeq]_vars

(* up to MaxInFlight handlers suspended at the execution provider *)
ConcCategories == {"MEME"}

ConcPrices == {5, 17}

ConcUpdated == {"T1"}

NextConc ==
  PositionStep(Procs, Tokens, ConcCategories, ConcUpdated, ConcPrices)

SpecConc == Init /\ [][NextConc]_vars

(* the swaps the tier loops hand to the metrics engine, one at a time *)
MetricTokens == {"T1", "T2"}

NextMetrics ==
  \E t \in MetricTokens, amount \in Amounts, tx_type \in {"buy", "sell"},
     w \in Wallets : process_transaction(t, amount, tx_type, w)

SpecMetrics == Init /\ [][NextMetrics]_vars

(* swaps of three tokens of the three categories, from one wallet *)
SignalWallets == {"W2"}

SignalAmounts == {2}

NextSignals ==
  \E t \in Tokens, amount \in SignalAmounts, tx_type \in {"buy", "sell"},
     w \in SignalWallets : process_transaction(t, amount, tx_type, w)

SpecSignals == Init /\ [][NextSignals]_vars

(* swaps, the passing of time and the cleanup sweep *)
CleanupTicks == {360, 1440}

MaxAges == {24}

NextCleanup ==
  \/ \E t \in MetricTokens, amount \in SignalAmounts,
        tx_type \in {"buy", "sell"}, w \in SignalWallets :
        process_transaction(t, amount, tx_type, w)
  \/ \E minutes \in CleanupTicks : Tick(minutes, MaxNow)
  \/ \E max_age_hours \in MaxAges : cleanup_old_tokens(max_age_hours)

SpecCleanup == Init /\ [][NextCleanup]_vars

(* the monitoring tasks, the wallets' responses and the passing of time *)
WalletTicks == {60, 240}

NextWallets ==
  \/ \E l \in Loops : monitor_wallets(l)
  \/ \E l \in Loops, w \in Wallets, response \in Responses :
        process_wallet(l, w, response)
  \/ \E minutes \in WalletTicks : Tick(minutes, MaxIdle)

SpecWallets == Init /\ [][NextWallets]_vars

(* every monitoring task that can take a step takes one eventually *)
FairTicks == {240}

NextWalletsFair ==
  \/ \E l \in Loops : monitor_wallets(l)
  \/ \E l \in Loops, w \in Wallets, response \in Responses :
        process_wallet(l, w, response)
  \/ \E minutes \in FairTicks : Tick(minutes, MaxIdle)

SpecWalletsFair ==
  /\ Init
  /\ [][NextWalletsFair]_vars
  /\ \A l \in Loops :
       /\ WF_vars(monitor_wallets(l))
       /\ WF_vars(\E w \in Wallets, response \in Responses :
                     process_wallet(l, w, response))

(* the swap filter on every transaction of up to MaxChanges changes *)
InitSwap ==
  /\ positions = [t \in Tokens |-> NoPosition]
  /\ calls = [p \in Procs |-> IdleCall]
  /\ sellCount = [t \in Tokens |-> [i \in Levels |-> 0]]
  /\ token_metrics = [t \in Tokens |-> NoMetrics]
  /\ last_tx = NoTx
  /\ signals = {}
  /\ last_signal = [t \in Tokens |-> NoSignal]
  /\ last_cleanup = NoCleanup
  /\ now = 0
  /\ InitWallets
  /\ swap \in {[NoSwap EXCEPT !.tx = tx] : tx \in Txs}
  /\ categorizer = NoAnalysis
  /\ fetch = NoFetch
  /\ InitRun
  /\ InitRelay

NextSwap == filter_swap

SpecSwap == InitSwap /\ [][NextSwap]_vars

(* the categorizer on every text of up to MaxWords words *)
InitCategorizer ==
  /\ positions = [t \in Tokens |-> NoPosition]
  /\ calls = [p \in Procs |-> IdleCall]
  /\ sellCount = [t \in Tokens |-> [i \in Levels |-> 0]]
  /\ token_metrics = [t \in Tokens |-> NoMetrics]
  /\ last_tx = NoTx
  /\ signals = {}
  /\ last_signal = [t \in Tokens |-> NoSignal]
  /\ last_cleanup = NoCleanup
  /\ now = 0
  /\ InitWallets
  /\ swap = NoSwap
  /\ categorizer \in {[NoAnalysis EXCEPT !.text = text] : text \in Texts}
  /\ fetch = NoFetch
  /\ InitRun
  /\ InitRelay

NextCategorizer == categorize

SpecCategorizer == InitCategorizer /\ [][NextCategorizer]_vars

(* one fetch; a request that was made returns or raises, a sleep ends *)
NextFetch ==
  \/ \E wallet \in Wallets, initial_scan \in BOOLEAN :
        get_wallet_transactions(wallet, initial_scan)
  \/ \E response \in FetchResponses : fetch_response(response)
  \/ fetch_retry

SpecFetch ==
  /\ Init
  /\ [][NextFetch]_vars
  /\ WF_vars(\E response \in FetchResponses : fetch_response(response))
  /\ WF_vars(fetch_retry)


(* categorizations of the tokens, the provider's answers, time passing *)
LookupTicks == {240}

NextMetadata ==
  \/ \E t \in Tokens, response \in MetadataResponses :
        categorize_fetched(t, response)
  \/ \E minutes \in LookupTicks : Tick(minutes, MaxIdle)

SpecMetadata == Init /\ [][NextMetadata]_vars

(* two tier loops that process swaps on the same tokens *)
Scorers == {"active", "watching"}

ScoredTokens == {"T1", "T2"}

NextScoring ==
  \/ \E l \in Scorers, t \in ScoredTokens, amount \in SignalAmounts,
        tx_type \in {"buy", "sell"}, w \in Wallets :
        score_begin(l, t, amount, tx_type, w)
  \/ \E l \in Scorers : score_resume(l)

SpecScoring == Init /\ [][NextScoring]_vars


(* the monitoring loops with swaps in flight and a request to stop; a      *)
(* round ends when the loop's transaction is over; the clock moves once    *)
StoppedTokens == {"T1"}

StoppedWallets == {"W1"}

StoppedResponses == {"quiet", "failed"}

(* process_wallet of a round: the wallet's fetch, once the transaction    *)
(* the loop is processing is over                                          *)
round_wallet(l, w, response) ==
  /\ scoring[l].phase = "idle"
  /\ process_wallet(l, w, response)

(* process_wallet of a round: a swap found in the wallet's transactions *)
round_swap(l, t, amount, w) ==
  /\ loops[l].phase = "run"
  /\ score_begin(l, t, amount, "buy", w)

NextShutdown ==
  \/ \E l \in Loops : monitor_wallets(l)
  \/ \E l \in Loops, w \in Wallets, response \in StoppedResponses :
        round_wallet(l, w, response)
  \/ \E l \in Loops, t \in StoppedTokens, amount \in SignalAmounts,
        w \in StoppedWallets : round_swap(l, t, amount, w)
  \/ \E l \in Loops : score_resume(l)
  \/ \E l \in Loops : monitor_exit(l)
  \/ \E minutes \in FairTicks : Tick(minutes, minutes)
  \/ shutdown

(* a fetch that was made returns, a sleep ends, a metadata fetch returns *)
SpecShutdown ==
  /\ Init
  /\ [][NextShutdown]_vars
  /\ \A l \in Loops :
       /\ WF_vars(\E w \in Wallets, response \in StoppedResponses :
                     round_wallet(l, w, response))
       /\ WF_vars(score_resume(l))
       /\ WF_vars(monitor_exit(l))

(* signals of a token without metadata, and the signal handler *)
EntryTokens == {"T1"}

EntryCategories == {"AI", "UNCATEGORIZED"}

EntryPrices == {5, 17}

NextEntry ==
  \/ \E t \in EntryTokens, amount \in SignalAmounts,
        tx_type \in {"buy", "sell"}, w \in SignalWallets :
          process_transaction_unresolved(t, amount, tx_type, w)
  \/ PositionStep({1}, EntryTokens, EntryCategories, EntryTokens, EntryPrices)

SpecEntry == Init /\ [][NextEntry]_vars

(* activity of one wallet seen in transactions of different ages *)
ActivityTicks == {10, 240}

ObservedWallets == {"W1"}

NextActivity ==
  \/ \E w \in ObservedWallets, age \in Ages : activity_observed(w, age)
  \/ \E minutes \in ActivityTicks : Tick(minutes, MaxIdle)

SpecActivity == Init /\ [][NextActivity]_vars

(* the relay with its clients' messages, closes and errors *)
NextRelay ==
  \/ \E c \in Clients : connection(c)
  \/ \E c \in Senders, message \in Messages : on_message(c, message)
  \/ \E c \in Clients : closing(c)
  \/ \E c \in Clients : on_close(c)
  \/ \E c \in Clients : on_error(c)

SpecRelay == Init /\ [][NextRelay]_vars

(* the heartbeat: a socket that is closing gets its close event *)
NextHeartbeat ==
  \/ \E c \in Clients : connection(c)
  \/ \E c \in Clients : on_pong(c)
  \/ ping_round
  \/ \E c \in Clients : closing(c)
  \/ \E c \in Clients : on_close(c)

SpecHeartbeat ==
  /\ Init
  /\ [][NextHeartbeat]_vars
  /\ \A c \in Clients : WF_vars(on_close(c))


(* ------------------------------ claims -------------------------------- *)

RECURSIVE SumPortions(_)
SumPortions(S) ==
  IF S = {} THEN 0
  ELSE LET i == CHOOSE j \in S : TRUE
       IN  PROFIT_LEVELS[i].sell_portion + SumPortions(S \ {i})

RECURSIVE SoldPortions(_, _)
SoldPortions(t, S) ==
  IF S = {} THEN 0
  ELSE LET i == CHOOSE j \in S : TRUE
       IN  sellCount[t][i] * PROFIT_LEVELS[i].sell_portion
             + SoldPortions(t, S \ {i})

(* this step creates a new Position for token t *)
Replaced(t) ==
  \E p \in Procs : /\ calls[p].phase = "buy"
                   /\ calls[p].token = t
                   /\ calls'[p].phase = "return"
                   /\ calls'[p].result = "ok"

UpdateReturned(p) == calls[p].op = "update" /\ calls[p].phase = "return"

SignalReturned(p) == calls[p].op = "signal" /\ calls[p].phase = "return"

(* C1: handlers run one at a time.  The sell portions of the levels in a   *)
(* position's hit-set, and the portions actually sold, add up to at most   *)
(* 100%; a level is sold at most once and exactly the sold levels are in   *)
(* the hit-set; the hit-set of a position never loses a level.             *)
C1_LevelsOnce ==
  \A t \in Tokens :
    /\ SumPortions(positions[t].profit_levels_hit) <= 100
    /\ SoldPortions(t, Levels) <= 100
    /\ \A i \in Levels :
         /\ sellCount[t][i] <= 1
         /\ sellCount[t][i] = 1 <=> i \in positions[t].profit_levels_hit

C1_HitSetGrows ==
  \A t \in Tokens :
    ~Replaced(t) =>
       positions[t].profit_levels_hit \subseteq positions'[t].profit_levels_hit

C1_HitSet == []C1_LevelsOnce /\ [][C1_HitSetGrows]_vars

C1_Witness ==
  \E t \in Tokens : /\ positions[t].profit_levels_hit = Levels
                    /\ \A i \in Levels : sellCount[t][i] = 1

(* C2: under any interleaving of updatePosition calls for one token, at    *)
(* most one sell of a take-profit level of a position succeeds.            *)
C2_OneSellPerLevel ==
  \A t \in Tokens, i \in Levels : sellCount[t][i] < 2

(* C3: the open positions never exceed the global cap, and the open        *)
(* positions of a category never exceed the cap of that category, also     *)
(* with signals suspended at the buy.                                      *)
category_cap(c) == IF c = "MEME" THEN MAX_MEME_POSITIONS ELSE MAX_AI_POSITIONS

C3_CapsHold ==
  /\ Cardinality(get_active_positions) <= MAX_POSITIONS
  /\ \A c \in Categories :
       Cardinality({t \in get_active_positions : positions[t].category = c})
         <= category_cap(c)

(* C4: a signal for a token that has an Open position is rejected without  *)
(* a buy, and no Position is created for a token whose Position is Open,   *)
(* also with two signals for the token in flight.                          *)
C4_OneOpenPerToken ==
  \A p \in Procs :
    SignalReturned(p) =>
      /\ calls[p].before.status = "Open" =>
            calls[p].result = "rejected" /\ calls[p].reqs = 0
      /\ calls[p].result = "ok" => calls[p].pre.status # "Open"

(* C5: handlers run one at a time.  An Open position holds tokens and a    *)
(* Closed one holds none; a position goes from Open to Closed only, and    *)
(* does so exactly when its remaining quantity reaches zero; a Closed      *)
(* position is never changed by an update, only replaced by a new one      *)
(* after a later signal.                                                   *)
C5_OpenHoldsTokens ==
  \A t \in Tokens :
    /\ positions[t].status = "Open" => positions[t].tokens > 0
    /\ positions[t].status = "Closed" => positions[t].tokens = 0

C5_OpenToClosed ==
  \A t \in Tokens :
    IF Replaced(t)
      THEN positions[t].status # "Open" /\ positions'[t].status = "Open"
      ELSE /\ positions[t].status = "Closed" =>
                Core(positions'[t]) = Core(positions[t])
           /\ positions[t].status = "None" => positions'[t] = positions[t]
           /\ positions[t].status = "Open" =>
                /\ positions'[t].status \in {"Open", "Closed"}
                /\ positions'[t].status = "Closed" <=> positions'[t].tokens = 0

C5_ClosedIsTerminal == []C5_OpenHoldsTokens /\ [][C5_OpenToClosed]_vars

C5_Witness ==
  \E p \in Procs : /\ UpdateReturned(p)
                   /\ calls[p].before.status = "Closed"
                   /\ calls[p].price >= 16

StopLossReached(p) ==
  /\ calls[p].op = "update"
  /\ calls[p].before.status = "Open"
  /\ calls[p].before.tokens > 0
  /\ calls[p].price <= positions[calls[p].token].stop_loss

C7_StopLossExit ==
  \A p \in Procs :
    StopLossReached(p) =>
      /\ calls[p].phase \in {"sell", "return"}
      /\ calls[p].kind = "sl"
      /\ calls[p].reqs = 1
      /\ calls[p].qty = calls[p].before.tokens
      /\ (calls[p].phase = "return" /\ calls[p].result = "ok") =>
            /\ positions[calls[p].token].status = "Closed"
            /\ positions[calls[p].token].tokens = 0

C7_Witness ==
  \E p \in Procs : /\ StopLossReached(p)
                   /\ calls[p].phase = "return"
                   /\ calls[p].result = "ok"
                   /\ calls[p].before.profit_levels_hit = {1}
                   /\ positions[calls[p].token].status = "Closed"

ScenarioC(pos) ==
  /\ pos.entry_price = 10
  /\ pos.stop_loss = 8
  /\ target_price(pos, 1) = 16
  /\ target_price(pos, 2) = 22

AfterFirstLevel(pos) ==
  [tokens |-> pos.orig - pos.orig \div 4, r_pnl |-> (pos.orig \div 4) * 6,
   profit_levels_hit |-> {1}, status |-> "Open"]

C9_ScenarioC ==
  \A p \in Procs :
    LET pos == positions[calls[p].token]
        fresh == [tokens |-> pos.orig, r_pnl |-> 0, profit_levels_hit |-> {},
                  status |-> "Open"]
    IN  (UpdateReturned(p) /\ calls[p].result = "ok" /\ ScenarioC(pos)) =>
          /\ (calls[p].price = 17 /\ calls[p].before = fresh) =>
                Core(pos) = AfterFirstLevel(pos) /\ calls[p].reqs = 1
          /\ (calls[p].price = 5 /\ calls[p].before = AfterFirstLevel(pos)) =>
                /\ pos.status = "Closed"
                /\ pos.tokens = 0
                /\ calls[p].reqs = 1
                /\ calls[p].qty = pos.orig - pos.orig \div 4

C9_Witness ==
  \E p \in Procs :
    LET pos == positions[calls[p].token]
    IN  /\ UpdateReturned(p)
        /\ calls[p].result = "ok"
        /\ ScenarioC(pos)
        /\ calls[p].price = 5
        /\ calls[p].before = AfterFirstLevel(pos)
        /\ pos.status = "Closed"

(* C10: after any sequence of buys and sells the score of a token is not   *)
(* negative, and a sell whose reduction exceeds the score leaves it at 0.  *)
C10_ScoreNotNegative ==
  /\ \A t \in Tokens : token_metrics[t].score >= 0
  /\ (last_tx.tx_type = "sell" /\ last_tx.change > last_tx.score_before) =>
        token_metrics[last_tx.token].score = 0

C10_Witness ==
  /\ last_tx.tx_type = "sell"
  /\ last_tx.score_before > 0
  /\ last_tx.change > last_tx.score_before
  /\ token_metrics[last_tx.token].score = 0

(* the category thresholds, the tier boundaries and the lexicon weights   *)
(* as the claims state them                                                *)
ClaimedThreshold(category) == IF category = "MEME" THEN 150 ELSE 80

ClaimedStatus(age) ==
  IF age <= 15 THEN "VERY_ACTIVE"
  ELSE IF age <= 60 THEN "ACTIVE"
  ELSE IF age <= 240 THEN "WATCHING"
  ELSE "ASLEEP"

(* the pass that has just run emitted a signal *)
Emitted == signals # {}

(* the signals of a pass are signals of its token at its score, at or     *)
(* above the category threshold, and there is at most one                  *)
SignalsOfPass ==
  LET t == last_tx.token
      m == token_metrics[t]
  IN  /\ Cardinality(signals) <= 1
      /\ \A sig \in signals :
            /\ sig.token_address = t
            /\ sig.category = m.category
            /\ sig.score = m.score
            /\ sig.score >= ClaimedThreshold(sig.category)

(* C11: in each evaluation pass a signal for the token is emitted if and  *)
(* only if the score after the mutation is at or above the threshold of    *)
(* the token's category (AI 80, MEME 150, HYBRID 80) and the last signal   *)
(* the token emitted was not at or above this score; no signal is emitted  *)
(* below the threshold and at most one signal is emitted per pass.         *)
C11_SignalIffAboveAndNew ==
  last_tx.tx_type # "none" =>
    LET m == token_metrics[last_tx.token]
    IN  /\ Emitted <=> /\ m.score >= ClaimedThreshold(m.category)
                       /\ last_tx.prev_signal < m.score
        /\ SignalsOfPass

(* C11, amended: in each evaluation pass a signal for the token is        *)
(* emitted if and only if the score after the mutation is at or above the  *)
(* threshold of the token's category, whatever signals the token emitted   *)
(* before; no signal is emitted below the threshold and at most one signal *)
(* is emitted per pass.                                                    *)
C11_SignalIffAbove ==
  last_tx.tx_type # "none" =>
    LET m == token_metrics[last_tx.token]
    IN  /\ Emitted <=> m.score >= ClaimedThreshold(m.category)
        /\ SignalsOfPass

C11_Witness ==
  LET m == token_metrics[last_tx.token]
  IN  /\ last_tx.tx_type = "sell"
      /\ m.category = "AI"
      /\ m.score = 80
      /\ last_tx.prev_signal = 160
      /\ Emitted

(* the entries the claim has removed by a sweep at time `at` *)
Removable(metrics, at, max_age_hours) ==
  /\ metrics.known
  /\ metrics.score = 0
  /\ at - metrics.last_update > max_age_hours * 60

(* C12: a cleanup sweep removes exactly the entries whose score is 0 and  *)
(* whose last update is more than max_age_hours old; every other entry is  *)
(* kept unchanged.                                                         *)
C12_CleanupExact ==
  [][last_cleanup' # last_cleanup =>
       \A t \in Tokens :
          token_metrics'[t] =
             IF Removable(token_metrics[t], now, last_cleanup'.max_age_hours)
               THEN NoMetrics
             ELSE token_metrics[t]]_vars

(* Scenario E: 30 hours after their last update the token with score 0 is *)
(* gone and the token with a positive score is kept                        *)
C12_Witness ==
  /\ last_cleanup.max_age_hours = 24
  /\ last_cleanup.at = 1800
  /\ now = 1800
  /\ last_tx.token = "T1"
  /\ last_tx.tx_type = "sell"
  /\ ~token_metrics["T1"].known
  /\ token_metrics["T2"].known
  /\ token_metrics["T2"].score > 0
  /\ token_metrics["T2"].last_update = 0

(* C13: the status of every wallet is, at every time, the status that     *)
(* the age of its last activity gives (15 min, 1 h and 4 h inclusive): no  *)
(* stored status disagrees with it.                                        *)
C13_StatusIsDerived ==
  \A w \in Wallets :
     wallets[w].status = ClaimedStatus(now - wallets[w].last_active)

(* process_wallet has just seen activity on wallet w *)
ActivitySeen(w) ==
  /\ last_polled' = [wallet |-> w, loop |-> last_polled'.loop,
                     response |-> "activity"]
  /\ \E l \in Loops :
        /\ last_polled'.loop = l
        /\ w \in loops[l].pending
        /\ w \notin loops'[l].pending

(* C14: activity seen on a wallet makes it read VERY_ACTIVE right after,  *)
(* whichever task saw it, and a wallet without activity for 5 hours reads  *)
(* ASLEEP before.                                                          *)
C14_ActivityPromotes ==
  [][\A w \in Wallets :
        ActivitySeen(w) =>
           /\ now - wallets[w].last_active >= 300 => read_status(w) = "ASLEEP"
           /\ read_status(w)' = "VERY_ACTIVE"
           /\ wallets'[w].status = "VERY_ACTIVE"]_vars

C14_Witness ==
  \E w \in Wallets :
     /\ last_polled = [wallet |-> w, loop |-> "asleep", response |-> "activity"]
     /\ now = 300
     /\ wallets[w].last_active = now
     /\ wallets[w].status = "VERY_ACTIVE"

(* every wallet has its record and its status belongs to one task *)
Watched ==
  /\ DOMAIN wallets = Wallets
  /\ \A w \in Wallets :
        Cardinality({l \in Loops : read_status(w) \in loop_statuses[l]}) = 1

(* C15: no wallet is dropped: every wallet keeps its record, belongs to   *)
(* exactly one tier at every instant, and is polled again and again when   *)
(* the monitoring tasks are scheduled fairly.                              *)
C15_NeverDropped ==
  /\ []Watched
  /\ \A w \in Wallets : []<>(last_polled.wallet = w)

C15_Witness ==
  /\ last_polled.wallet = "W2"
  /\ last_polled.loop = "asleep"
  /\ wallets["W1"].status = "VERY_ACTIVE"
  /\ wallets["W1"].last_active > 0

(* process_wallet of task l has just had the fetch of wallet w fail *)
FetchFailed(l, w) ==
  /\ last_polled' = [wallet |-> w, loop |-> l, response |-> "failed"]
  /\ w \in loops[l].pending
  /\ w \notin loops'[l].pending

NoTaskEnded == \A l \in Loops : loops[l].phase # "dead"

C17_RealSwap ==
  swap.done =>
    LET changes == swap.tx.balanceChange
        amount(i) == IF changes[i].has_amount THEN changes[i].amount ELSE 0
    IN  swap.result <=>
          /\ swap.tx.has_balanceChange
          /\ \E i \in DOMAIN changes :
                changes[i].address \notin {"WSOL", "USDC", "USDT"}
          /\ \E i \in DOMAIN changes :
                /\ changes[i].address \in {"WSOL", "USDC"}
                /\ amount(i) # 0

C17_Witness ==
  /\ swap.done
  /\ swap.result
  /\ Len(swap.tx.balanceChange) = 2
  /\ swap.tx.balanceChange[1].address = "TOKEN"
  /\ swap.tx.balanceChange[2].address = "USDC"

(* the number of entries of a lexicon tier that occur in the text *)
Matching(tier, text) ==
  Cardinality({entry \in ai_signals[tier] :
                  entry_matches(entry, tokenize(split_lower(text)))})

(* C18: the confidence of a text is min(1.0, 0.6 x primary matches + 0.3  *)
(* x secondary matches + 0.2 x context matches), every matching entry      *)
(* counted, and the category is AI from 0.7, HYBRID from 0.3, else MEME.   *)
C18_ConfidenceCountsAll ==
  categorizer.done =>
    LET text == categorizer.text
        confidence == Min(10,  6 * Matching("primary", text)
                             + 3 * Matching("secondary", text)
                             + 2 * Matching("context", text))
    IN  /\ categorizer.confidence = confidence
        /\ categorizer.category =
              IF confidence >= 7 THEN "AI"
              ELSE IF confidence >= 3 THEN "HYBRID"
              ELSE "MEME"

ScenarioB == <<"AI-powered", "autonomous", "agent">>

(* C19: the text "AI-powered autonomous agent" matches the primary signal *)
(* "ai" and the secondary signal "autonomous", has a confidence of at      *)
(* least 0.7 and is categorised AI.                                        *)
C19_ScenarioB ==
  (categorizer.done /\ categorizer.text = ScenarioB) =>
     /\ "ai" \in categorizer.matched.primary
     /\ "autonomous" \in categorizer.matched.secondary
     /\ categorizer.confidence >= 7
     /\ categorizer.category = "AI"

C19_Witness ==
  /\ categorizer.done
  /\ categorizer.text = ScenarioB
  /\ categorizer.category = "AI"

FetchReturned == fetch.phase = "returned"

(* at most 3 attempts; a success within them is what the caller gets;     *)
(* every delay is longer than the one before                               *)
FetchBounded ==
  /\ Len(fetch.responses) <= 3
  /\ FetchReturned =>
        /\ (\E i \in DOMAIN fetch.responses : fetch.responses[i] = "ok")
              <=> fetch.result \in {"data", "recent"}
        /\ fetch.responses = <<"rate_limit", "rate_limit", "ok">> =>
              fetch.result # "None"
  /\ \A i, j \in DOMAIN fetch.slept : i < j => fetch.slept[i] < fetch.slept[j]

Transient == {"rate_limit", "timeout"}

(* C21: an authentication error is never retried: it is the last attempt  *)
(* of its fetch, which returns at once; only transient failures (timeout,  *)
(* rate limit) are followed by another attempt.                            *)
C21_AuthErrorNotRetried ==
  \A i \in DOMAIN fetch.responses :
     /\ fetch.responses[i] = "auth_error" =>
           /\ i = Len(fetch.responses)
           /\ FetchReturned
     /\ i < Len(fetch.responses) => fetch.responses[i] \in Transient

(* the swaps on token t whose processing is over, in that order *)
DoneOn(t) == SelectSeq(scored.done, LAMBDA s : s.token = t)

(* the orders in which n swaps can be executed one after the other *)
Orders(n) ==
  {f \in [1..n -> 1..n] : \A i, j \in 1..n : i # j => f[i] # f[j]}

(* the score after the first n swaps of an order are applied to a new entry *)
RECURSIVE ScoreAfter(_, _, _)
ScoreAfter(swaps, f, n) ==
  IF n = 0 THEN 0
  ELSE LET s == swaps[f[n]]
           before == ScoreAfter(swaps, f, n - 1)
           change == wallet_score[s.wallet] * s.amount
       IN  IF s.tx_type = "buy" THEN before + change
           ELSE IF before < change THEN 0 ELSE before - change

(* the entry of t is what some sequential execution of its swaps leaves *)
Sequential(t) ==
  LET swaps == DoneOn(t)
      n == Len(swaps)
      buys == {i \in 1..n : swaps[i].tx_type = "buy"}
      metrics == token_metrics[t]
  IN  n > 0 =>
        /\ metrics.known
        /\ metrics.score \in {ScoreAfter(swaps, f, n) : f \in Orders(n)}
        /\ metrics.buy_count = Cardinality(buys)
        /\ metrics.sell_count = n - Cardinality(buys)
        /\ metrics.unique_buyers = {swaps[i].wallet : i \in buys}

CachedLookup == last_lookup.token \in Tokens /\ last_lookup.before # Absent

LookupFailed ==
  /\ last_lookup.token \in Tokens
  /\ last_lookup.requested
  /\ last_lookup.response \notin Descriptions

(* C24: a failed metadata fetch gives UNCATEGORIZED with confidence 0 and  *)
(* caches nothing; UNCATEGORIZED never comes from the cache, and the next  *)
(* categorization of a token without cache entry asks the provider again   *)
(* and gives the category of the metadata it then gets.                    *)
C24_FailureNotPermanent ==
  /\ [](LookupFailed =>
          /\ last_lookup.category = "UNCATEGORIZED"
          /\ last_lookup.confidence = 0
          /\ metadata_cache[last_lookup.token] = Absent)
  /\ [](last_lookup.category = "UNCATEGORIZED" => LookupFailed)
  /\ [][\A t \in Tokens :
          (/\ last_lookup' # last_lookup
           /\ last_lookup'.token = t
           /\ metadata_cache[t] = Absent) =>
             /\ last_lookup'.requested
             /\ last_lookup'.response \in Descriptions =>
                   /\ last_lookup'.category
                         = categorize_text(
                             description_text[last_lookup'.response]).category
                   /\ last_lookup'.category \in Categories]_vars

C24_Witness ==
  /\ last_lookup.token = "T1"
  /\ "T1" \in last_lookup.failed
  /\ last_lookup.requested
  /\ last_lookup.category = "AI"
  /\ last_lookup.confidence = 9

(* after the request to stop no loop starts a round *)
NoNewTick ==
  \A l \in Loops :
     (~is_running /\ loops[l].phase # "run") => loops'[l].phase # "run"

(* a round in flight loses a wallet only by processing it, and a           *)
(* transaction in flight ends only with its swap counted in the entry      *)
NothingAbandoned ==
  \A l \in Loops :
     /\ loops[l].phase = "run" =>
           /\ loops'[l].phase \in {"run", "sleep"}
           /\ loops'[l].pending \subseteq loops[l].pending
           /\ loops'[l].pending # loops[l].pending =>
                 /\ loops[l].pending \ loops'[l].pending = {last_polled'.wallet}
                 /\ last_polled'.loop = l
     /\ (scoring[l].phase = "fetch" /\ scoring'[l] # scoring[l]) =>
           /\ scoring'[l].phase = "idle"
           /\ scored'.done = Append(scored.done,
                 [token |-> scoring[l].token, tx_type |-> scoring[l].tx_type,
                  wallet |-> scoring[l].wallet, amount |-> scoring[l].amount])
           /\ token_metrics'[scoring[l].token].known
           /\ token_metrics'[scoring[l].token].buy_count >= 1

BuyGaveUp(p) ==
  /\ calls[p].phase = "buy"
  /\ calls'[p].phase = "return"
  /\ calls'[p].result = "error"

(* C26: handlers run one at a time.  A Position is created only when the   *)
(* buy is confirmed: when the buy of an accepted signal fails, no open     *)
(* Position exists for the token afterwards, the positions and the set of  *)
(* open positions are what they were, and a token gets an open Position    *)
(* only in the step that confirms its buy.                                 *)
C26_NoPositionOnFailedBuy ==
  /\ [](\A p \in Procs :
          (SignalReturned(p) /\ calls[p].result = "error") =>
             /\ positions[calls[p].token].status # "Open"
             /\ Core(positions[calls[p].token]) = calls[p].before)
  /\ [][\A p \in Procs :
          BuyGaveUp(p) =>
             /\ positions' = positions
             /\ {t \in Tokens : positions'[t].status = "Open"}
                   = get_active_positions]_vars
  /\ [][\A t \in Tokens :
          (positions[t].status # "Open" /\ positions'[t].status = "Open") =>
             \E p \in Procs : /\ calls[p].phase = "buy"
                              /\ calls[p].token = t
                              /\ calls'[p].result = "ok"]_vars

C26_Witness ==
  \E p \in Procs :
     /\ SignalReturned(p)
     /\ calls[p].result = "error"
     /\ calls[p].token = "T1"
     /\ positions["T1"].status = "None"
     /\ positions["T2"].status = "Open"

(* the tokens a confirmed take-profit sell of handler p takes away *)
TakeProfitSold(p) ==
  /\ calls[p].phase = "sell"
  /\ calls[p].kind = "tp"
  /\ positions'[calls[p].token].tokens # positions[calls[p].token].tokens

(* an Open position that still holds tokens has sold 25% of the entry      *)
(* quantity for every level in its hit-set                                 *)
SoldOfOriginal(pos) ==
  (pos.status = "Open" /\ pos.tokens > 0) =>
     pos.tokens = pos.orig - 25 * (pos.orig \div 100)
                               * Cardinality(pos.profit_levels_hit)

(* C27: handlers run one at a time.  A triggered take-profit level sells   *)
(* min(portion x entry quantity, remaining quantity): with 100 tokens and  *)
(* 25% levels the first level leaves 75 tokens and its index in the        *)
(* hit-set, all four levels leave 0, and the remaining quantity is never   *)
(* negative.                                                               *)
C27_PortionOfOriginal ==
  /\ [](\A t \in Tokens :
          /\ positions[t].tokens >= 0
          /\ SoldOfOriginal(positions[t])
          /\ positions[t].profit_levels_hit = Levels =>
                positions[t].tokens = 0)
  /\ [][\A p \in Procs :
          TakeProfitSold(p) =>
             LET pos == positions[calls[p].token]
                 portion == (25 * pos.orig) \div 100
             IN  positions'[calls[p].token].tokens
                   = pos.tokens
                       - (IF portion <= pos.tokens THEN portion
                          ELSE pos.tokens)]_vars

C27_Witness ==
  /\ positions["T1"].orig = 100
  /\ positions["T1"].profit_levels_hit = Levels
  /\ positions["T1"].tokens = 0
  /\ positions["T2"].profit_levels_hit = {1}
  /\ positions["T2"].tokens = 75
  /\ positions["T2"].status = "Open"

(* the levels whose trigger price (entry +60%, +120%, +180%, +240%) is     *)
(* reached by the price                                                    *)
Reached(pos, price) ==
  {i \in Levels : 10 * price >= pos.entry_price * (10 + 6 * i)}

(* the update of handler p has returned without error for a position that  *)
(* was Open when it was called                                             *)
UpdatedOpen(p) ==
  /\ UpdateReturned(p)
  /\ calls[p].result = "ok"
  /\ calls[p].before.status = "Open"

(* handler p requests the sell of a take-profit level *)
LevelRequested(p) ==
  /\ calls'[p].phase = "sell"
  /\ calls'[p].kind = "tp"
  /\ calls'[p].reqs # calls[p].reqs

SellBooked(p) ==
  /\ calls[p].phase = "sell"
  /\ positions'[calls[p].token].tokens # positions[calls[p].token].tokens

(* realized PnL moves by (price - entry) x the quantity sold in this step *)
BookedAt(p, price) ==
  LET old == positions[calls[p].token]
      new == positions'[calls[p].token]
  IN  new.r_pnl - old.r_pnl
        = (price - old.entry_price) * (old.tokens - new.tokens)

(* realized PnL changes only when a sell is booked *)
BookedOnlyOnSell ==
  \A t \in Tokens :
     (positions'[t].r_pnl # positions[t].r_pnl /\ ~Replaced(t)) =>
        \E p \in Procs : SellBooked(p) /\ calls[p].token = t

UpdatedPosition(p) ==
  /\ UpdateReturned(p)
  /\ calls[p].before.status = "Open"

(* C30: handlers run one at a time.  When an update returns, also one that *)
(* executed partial sells, unrealized PnL is (currentPrice - entryPrice) x *)
(* the quantity then held; realized PnL is 0 until the first sell (100     *)
(* tokens at entry 1.0 and price 1.1 give realized 0 and unrealized 10.0). *)
C30_UnrealizedOfRemaining ==
  /\ \A p \in Procs :
        UpdatedPosition(p) =>
           LET pos == positions[calls[p].token]
           IN  /\ pos.current_price = calls[p].price
               /\ pos.ur_pnl = (calls[p].price - pos.entry_price) * pos.tokens
               /\ (/\ calls[p].price = 11
                   /\ pos.entry_price = 10
                   /\ calls[p].before.tokens = 100
                   /\ calls[p].before.r_pnl = 0) =>
                      pos.r_pnl = 0 /\ pos.ur_pnl = 100
  /\ \A t \in Tokens :
        (/\ positions[t].status = "Open"
         /\ \A i \in Levels : sellCount[t][i] = 0) =>
            positions[t].r_pnl = 0

C30_Witness ==
  \E p \in Procs :
     /\ UpdatedPosition(p)
     /\ calls[p].price = 22
     /\ calls[p].before.tokens = 75
     /\ positions[calls[p].token].tokens = 50
     /\ positions[calls[p].token].ur_pnl = 600
     /\ positions[calls[p].token].r_pnl = 450

(* a step in which the server handled a message of client c *)
MessageStep(c) == sent' # sent /\ sent'.from = c

(* the state after the step went to the open sockets of the set, and to    *)
(* the sender when it is one of them                                       *)
BroadcastAfter(c) ==
  /\ sent'.state = currentState'
  /\ sent'.to = {d \in clients : sockets[d].readyState = "OPEN"}
  /\ (c \in clients => c \in sent'.to)

(* a socket that left the set is not added again, a closed socket is not   *)
(* in the set, and a send goes to members of the set only                  *)
RemovedForGood ==
  /\ \A c \in Clients :
       /\ (c \notin clients /\ sockets[c].readyState # "NONE")
            => c \notin clients'
       /\ (on_close(c) \/ on_error(c)) => c \notin clients'
       /\ sockets'[c].readyState = "CLOSED" => c \notin clients'
  /\ sent'.to # sent.to => sent'.to \subseteq clients'

(* C31 as stated: after every message that JSON.parse accepts the state is *)
(* broadcast to every open client of the set, the sender included, and a   *)
(* client that closed or raised an error gets no later broadcast.          *)
C31_ParsedBroadcast ==
  [][/\ \A c \in Clients :
          (MessageStep(c) /\ sent'.kind # "garbage") => BroadcastAfter(c)
     /\ RemovedForGood]_vars

(* the messages whose processing raises: text that is not JSON, the JSON   *)
(* value null, a metrics update while the stored metrics are null          *)
Raises(kind) ==
  \/ kind \in {"garbage", "null"}
  \/ kind = "metrics" /\ "token_metrics" \in currentState.nulls

(* C31: after every message that parses to a JSON value other than null,   *)
(* a metrics update arriving while the stored metrics are null excepted,   *)
(* the updated state is broadcast to every open client of the connected    *)
(* set, the sender included; the excepted messages change nothing and are  *)
(* not broadcast; a client that closed or raised an error is out of the    *)
(* set and gets no later broadcast.                                        *)
C31_HandledBroadcast ==
  [][/\ \A c \in Clients :
          MessageStep(c) =>
            IF Raises(sent'.kind)
              THEN currentState' = currentState /\ sent'.to = {}
            ELSE BroadcastAfter(c)
     /\ RemovedForGood]_vars

C31_Witness ==
  /\ sent.from = "c1" /\ sent.kind = "positions"
  /\ sent.to = {"c1"} /\ sent.state = currentState
  /\ currentState # InitialState
  /\ sockets["c2"].readyState = "CLOSED"

(* the messages that carry a position list, the empty one included *)
PositionMessages == {m \in Messages : truthy(m, "active_positions")}

(* C32: a message carrying active_positions replaces the stored list: the  *)
(* state stored and broadcast afterwards has exactly the positions of the  *)
(* message, so a position the message omits is gone and a partially closed *)
(* one shows its reduced amount.                                           *)
C32_PositionsReplaced ==
  [][\A c \in Senders :
        (MessageStep(c) /\ sent'.kind = "positions") =>
          \A m \in PositionMessages :
             on_message(c, m) =>
               /\ currentState'.active_positions = m.data.active_positions
               /\ "active_positions" \notin currentState'.nulls
               /\ sent'.state = currentState']_vars

C32_Witness ==
  /\ sent.kind = "positions" /\ sent.before = 2 /\ sent.to # {}
  /\ sent.state.active_positions = <<"AVB:298487">>
  /\ currentState = sent.state

(* C33: a message that is not valid JSON leaves the state unchanged,       *)
(* triggers no broadcast, does not remove the client from the connected    *)
(* set, and later valid messages are still processed and broadcast.        *)
C33_InvalidJsonIgnored ==
  [][\A c \in Senders :
        /\ (MessageStep(c) /\ sent'.kind = "garbage") =>
             /\ currentState' = currentState
             /\ clients' = clients /\ sockets' = sockets
             /\ sent'.to = {} /\ sent'.state = sent.state
        /\ (MessageStep(c) /\ c \in sent.rejected
              /\ sent'.kind \in {"positions", "other"}) =>
             /\ sent'.threw = FALSE /\ sent'.state = currentState'
             /\ sent'.to = {d \in clients : sockets[d].readyState = "OPEN"}
             /\ \E m \in Messages :
                  /\ currentState' = update_state(currentState, m)
                  /\ handled_as(m) = sent'.kind]_vars

C33_Witness ==
  /\ "c1" \in sent.rejected /\ "c1" \in clients
  /\ sent.from = "c1" /\ sent.kind = "positions" /\ "c1" \in sent.to
  /\ currentState.active_positions # <<>>

(* the ping interval fired *)
RoundStep == ping_round

(* C34: a heartbeat round pings every open client; a client whose previous *)
(* ping is still unanswered at the next round is terminated and ends up    *)
(* out of the connected set; a client that answered its ping before the    *)
(* round is not terminated by it.                                          *)
C34_Heartbeat ==
  /\ [][RoundStep =>
          \A c \in Clients :
            sockets[c].readyState = "OPEN" =>
              /\ sockets[c].pinged =>
                   /\ sockets'[c].readyState = "CLOSING"
                   /\ sockets'[c].terminated
              /\ ~sockets[c].pinged =>
                   /\ sockets'[c].readyState = "OPEN"
                   /\ sockets'[c].pinged /\ ~sockets'[c].terminated]_vars
  /\ [][\A c \in Clients :
          (~sockets[c].terminated /\ sockets'[c].terminated) => RoundStep]_vars
  /\ \A c \in Clients : sockets[c].terminated ~> c \notin clients

C34_Witness ==
  /\ sockets["c1"].terminated /\ sockets["c1"].readyState = "CLOSED"
  /\ "c1" \notin clients
  /\ sockets["c2"].readyState = "OPEN" /\ sockets["c2"].isAlive
  /\ ~sockets["c2"].pinged /\ "c2" \in clients

(* the fields of the state other than the position list *)
OtherThanPositions(state) ==
  [f \in Fields \ {"active_positions"} |-> state[f]]

(* C35: a message that carries a position list changes active_positions   *)
(* only: token_metrics, wallet_status, recent_transactions, the two        *)
(* counters and start_time keep their values, also when the message has    *)
(* values for them.                                                        *)
C35_OnlyPositionsChange ==
  [][\A c \in Senders :
        (MessageStep(c) /\ sent'.kind = "positions") =>
          /\ OtherThanPositions(currentState')
               = OtherThanPositions(currentState)
          /\ currentState'.nulls \subseteq currentState.nulls
          /\ sent'.state = currentState']_vars

(* a message with every field was handled as a position update: the list   *)
(* is the one of the message, the other fields are still the initial ones  *)
C35_Witness ==
  /\ sent.kind = "positions" /\ sent.before = 0 /\ sent.threw = FALSE
  /\ currentState.active_positions = <<"AVB:596974", "YUMI:138100">>
  /\ OtherThanPositions(currentState) = OtherThanPositions(InitialState)
  /\ \E m \in PositionMessages :
       /\ m.keys = Fields /\ m.data.wallets_checked = 1
       /\ m.data.token_metrics # NoMetricMap
       /\ currentState = update_state(InitialState, m)

(* the messages that carry a metrics map and no position list *)
MetricMessages == {m \in Messages : branch(m) = "metrics" /\ m.kind = "object"}

(* the stored value of a token, none when the stored metrics are null *)
StoredMetric(state, t) ==
  IF "token_metrics" \in state.nulls THEN 0 ELSE state.token_metrics[t]

(* C36: a message carrying token_metrics and no active_positions is merged *)
(* per token: the tokens it names are added or overwritten, every token    *)
(* stored before and not named keeps its value, so no token is removed.    *)
C36_MetricsMerged ==
  [][\A c \in Senders :
        (MessageStep(c) /\ sent'.kind = "metrics") =>
          \A m \in MetricMessages :
             on_message(c, m) =>
               \A t \in RelayTokens :
                  StoredMetric(currentState', t) =
                     IF m.data.token_metrics[t] # 0
                       THEN m.data.token_metrics[t]
                     ELSE StoredMetric(currentState, t)]_vars

(* the statuses from the least to the most active *)
StatusRank(status) ==
  IF status = "ASLEEP" THEN 0
  ELSE IF status = "WATCHING" THEN 1
  ELSE IF status = "ACTIVE" THEN 2
  ELSE 3

LexiconWords == {"AI", "ai16z", "autonomous", "intelligence", "pattern"}

CategoryRank(category) ==
  IF category = "AI" THEN 2 ELSE IF category = "HYBRID" THEN 1 ELSE 0

(* C38: adding a lexicon word to a text never lowers the confidence and    *)
(* never moves the category down the order MEME < HYBRID < AI: the text    *)
(* categorized scores at least what it scores without its last word, when  *)
(* that word is a lexicon word.                                            *)
C38_ConfidenceMonotone ==
  (/\ categorizer.done
   /\ categorizer.text # <<>>
   /\ categorizer.text[Len(categorizer.text)] \in LexiconWords) =>
    LET text == categorizer.text
        shorter == categorize_text(SubSeq(text, 1, Len(text) - 1))
    IN  /\ categorizer.confidence >= shorter.confidence
        /\ CategoryRank(categorizer.category)
             >= CategoryRank(shorter.category)

(* handler p was given a signal of an UNCATEGORIZED token *)
UncategorizedSignal(p) ==
  calls[p].op = "signal" /\ calls[p].category = "UNCATEGORIZED"

ReferenceAssets == {WSOL_ADDRESS, USDC_ADDRESS}

(* every balance change of the transaction is on a reference asset *)
OnlyReferenceAssets(tx) ==
  /\ tx.has_balanceChange
  /\ \A i \in DOMAIN tx.balanceChange :
        tx.balanceChange[i].address \in ReferenceAssets

(* C40: a transaction whose balance changes are all on reference assets is *)
(* not a real swap, also when one of them has amount 0 (or no amount) and  *)
(* the other an amount that is not 0.                                      *)
C40_ReferenceOnlyNotSwap ==
  (swap.done /\ OnlyReferenceAssets(swap.tx)) => ~swap.result

C40_Witness ==
  /\ swap.done /\ ~swap.result
  /\ swap.tx.has_balanceChange
  /\ swap.tx.balanceChange =
       <<[address |-> "WSOL", has_amount |-> TRUE, amount |-> 0],
         [address |-> "USDC", has_amount |-> TRUE, amount |-> 5]>>

====
